---- MODULE Spec2Model ----
(***************************************************************************)
(* Chat server of michalboska/rust-developer: the per-connection session   *)
(* (ex17-server/src/server.rs) over the user store                         *)
(* (ex18-server/src/users.rs) and the tokio broadcast bus.                 *)
(*                                                                         *)
(* A Message is a tuple whose head is the variant name.  A text payload is *)
(* a tuple of string pieces, so that format!("Welcome, {}", login) is the  *)
(* two-piece text <<"Welcome, ", login>>.  Option<T> is a sequence of      *)
(* length at most one.  A password digest sha256(passwd ++ salt) is the    *)
(* pair <<passwd, salt>> (salts are fixed-length UUIDs, the hash is taken  *)
(* as collision free).  Uuid::new_v4() is the next value of a counter.     *)
(***************************************************************************)
EXTENDS Integers, Sequences, FiniteSets, TLC

\* ---------------------------------------------------------------- bounds
\* the general scenario: any frame from any client, with faults
MaxSessions == 2
MaxFrames == 3
MaxFaults == 1
\* the chat scenario: clients that log in as admin and send one text
FanSessions == 3
FanFrames == 4

\* ------------------------------------------------------ program constants
CAPACITY == 20

VARIABLES
    env,            \* the environment: what clients send, how many connect,
                    \* how many reads and faults happen; never changes
    users,          \* table users: set of DbUser rows
    user_messages,  \* table user_messages: sequence of rows, insertion order
    next_uuid,      \* source of Uuid::new_v4()
    bus,            \* every BroadcastMessage sent on the channel, in order
    accepted,       \* number of connections the listener has accepted
    state,          \* per session: position of the task
    logged_user,    \* per session: Option<User>
    sub,            \* per session: next position of broadcast_sub in bus
    pending,        \* per session: Option<Message> saved, about to be sent on the bus
    sent,           \* per session: frames written to the client's socket
    nframes,        \* number of results read_next_message has returned
    faults,         \* number of store and socket-write failures so far
    calls,          \* per caller of the store: the call in progress and the
                    \* results of the calls it has made
    wire,           \* one connection, client to server: bytes written, not yet read
    closed,         \* the client has closed that connection
    client_wrote,   \* what the client has written to it, frame by frame
    reader,         \* where read_next_message is on it
    got,            \* what read_next_message has returned on it, in order
    out,            \* one client socket, server to client: the chunks written
    started,        \* the send_message calls on that socket, in order of start
    task,           \* per sender to that socket: where its send_message is
    guard,          \* the Mutex around that socket's writer: its holder, or 0
    stdin_reader,   \* the client's client_stdin_reader: its position, the line
                    \* it has read and what from_str made of it
    tables,         \* the tables the database file holds (sqlite_master)
    startup,        \* UserService::new: how often it has run, and its result
    listener,       \* Server::listen: where it is, and the session tasks it
                    \* spawned that have finished
    mux,            \* the select! of one session: what waits on its socket and
                    \* in its subscription, and the passes of each arm (mod 2)
    transit,        \* one connection, client to server: the chunks written by
                    \* the client that have not arrived yet
    xmit,           \* one send_message call, in byte counts: its locals
    watch,          \* the client's watch channel from client_stdin_reader to
                    \* process_messages: its value, whether the receiver has
                    \* yet to see it, and the first values sent on it
    client          \* the client's process_messages: its position, and the
                    \* messages it has sent to the server

\* the byte-level connection
tcp == <<wire, closed, client_wrote, reader, got>>

\* the write side of one client socket
snd == <<out, started, task, guard>>

\* the client's side
cli == <<stdin_reader, watch, client>>

\* the database file and the start of the server
db == <<tables, startup>>

\* the listener
lsn == <<listener>>

\* the rest of the server and of the client
beyond == <<lsn, mux, transit, xmit>>

\* what the sessions and the store do not touch
elsewhere == <<snd, cli, db, beyond>>

\* the sessions, the bus and the store
chat == <<users, user_messages, next_uuid, bus, accepted, state, logged_user,
          sub, pending, sent, nframes, faults>>

\* all but the write side of the socket; all but the client's side
not_snd == <<env, chat, calls, tcp, cli, db, beyond>>
not_cli == <<env, chat, calls, tcp, snd, db, beyond>>

\* all but the listener; all but the select! of one session
not_lsn == <<env, chat, calls, tcp, snd, cli, db, mux, transit, xmit>>
not_mux == <<env, chat, calls, tcp, snd, cli, db, lsn, transit, xmit>>

\* all but one send_message call in byte counts
not_xmit == <<env, chat, calls, tcp, snd, cli, db, lsn, mux, transit>>

vars == <<env, users, user_messages, next_uuid, bus, accepted, state, logged_user,
          sub, pending, sent, nframes, faults, calls, tcp, elsewhere>>

Addrs == 1..env.sessions

\* ---------------------------------------------------------------- Message
Text(t) == <<"Text", t>>
File(n, b) == <<"File", n, b>>
Image(b) == <<"Image", b>>
Login(u, p) == <<"Login", u, p>>
Signup(u, p) == <<"Signup", u, p>>
Passwd(p) == <<"Passwd", p>>
Quit == <<"Quit">>

Names == {"admin", "bob"}
Passwords == {"admin", "pw"}

\* the frames a client may put on its socket
Frames ==
    {Text(<<"hi">>), File("x.bin", "b5"), Image("b5"), Quit, Passwd("pw")}
      \cup {Login(u, p) : u \in Names, p \in Passwords}
      \cup {Signup(u, "pw") : u \in Names}

\* ------------------------------------------------------------- user store
\* mutant of get_passwd_digest: a digest of the salt alone
get_passwd_digest_SaltOnly(passwd, salt) == <<"", salt>>

get_passwd_digest(passwd, salt) == <<passwd, salt>>

DbUser(id, name, active, admin, password, salt) ==
    [id |-> id, name |-> name, active |-> active, admin |-> admin,
     password |-> password, salt |-> salt]

\* impl From<DbUser> for User
UserFrom(row) ==
    [id |-> row.id, name |-> row.name, is_active |-> row.active > 0,
     is_admin |-> row.admin > 0]

get_user_by_name(tbl, name) ==
    IF \E r \in tbl : r.name = name
    THEN <<CHOOSE r \in tbl : r.name = name>>
    ELSE <<>>

\* mutant of authenticate: the active flag not looked at
authenticate_IgnoreActive(tbl, username, password) ==
    LET found == get_user_by_name(tbl, username) IN
    IF found = <<>>
    THEN [ok |-> FALSE, err |-> "AuthenticationFailed", user |-> <<>>]
    ELSE IF found[1].password = <<password, found[1].salt>>
         THEN [ok |-> TRUE, err |-> "", user |-> <<UserFrom(found[1])>>]
         ELSE [ok |-> FALSE, err |-> "AuthenticationFailed", user |-> <<>>]

\* mutant of authenticate: a name that is not registered gets an error of
\* its own
authenticate_TellsNoSuchUser(tbl, username, password) ==
    LET found == get_user_by_name(tbl, username) IN
    IF found = <<>>
    THEN [ok |-> FALSE, err |-> "NoSuchUser", user |-> <<>>]
    ELSE IF found[1].active = 1
            /\ found[1].password = get_passwd_digest(password, found[1].salt)
         THEN [ok |-> TRUE, err |-> "", user |-> <<UserFrom(found[1])>>]
         ELSE [ok |-> FALSE, err |-> "AuthenticationFailed", user |-> <<>>]

\* authenticate: Ok(user) or Err(AuthenticationFailed)
authenticate(tbl, username, password) ==
    LET found == get_user_by_name(tbl, username) IN
    IF found = <<>>
    THEN [ok |-> FALSE, err |-> "AuthenticationFailed", user |-> <<>>]
    ELSE LET db_user == found[1]
             expected_digest == get_passwd_digest(password, db_user.salt)
         IN IF db_user.active = 1 /\ db_user.password = expected_digest
            THEN [ok |-> TRUE, err |-> "", user |-> <<UserFrom(db_user)>>]
            ELSE [ok |-> FALSE, err |-> "AuthenticationFailed", user |-> <<>>]

\* signup: Ok(user) with the new table, or Err(UserAlreadyExists)
signup(tbl, uuid, username, password) ==
    IF get_user_by_name(tbl, username) # <<>>
    THEN [ok |-> FALSE, err |-> "UserAlreadyExists", user |-> <<>>,
          tbl |-> tbl, uuid |-> uuid]
    ELSE LET new_id == uuid
             salt == uuid + 1
             row == DbUser(new_id, username, 1, 0,
                           get_passwd_digest(password, salt), salt)
         IN [ok |-> TRUE, err |-> "",
             user |-> <<[id |-> new_id, name |-> username,
                         is_active |-> TRUE, is_admin |-> FALSE]>>,
             tbl |-> tbl \cup {row}, uuid |-> uuid + 2]

\* update_user: flags of the row with this id
update_user(tbl, user_id, is_admin, is_active) ==
    IF \E r \in tbl : r.id = user_id
    THEN [ok |-> TRUE, err |-> "",
          tbl |-> {IF r.id = user_id
                   THEN [r EXCEPT !.active = IF is_active THEN 1 ELSE 0,
                                  !.admin = IF is_admin THEN 1 ELSE 0]
                   ELSE r : r \in tbl}]
    ELSE [ok |-> FALSE, err |-> "NoSuchUser", tbl |-> tbl]

\* mutant of change_password: rows_affected not looked at
change_password_Unchecked(tbl, uuid, user, new_password) ==
    [ok |-> TRUE, err |-> "", uuid |-> uuid + 1,
     tbl |-> {IF r.id = user.id
              THEN [r EXCEPT !.password = get_passwd_digest(new_password, uuid),
                             !.salt = uuid]
              ELSE r : r \in tbl}]

\* change_password: new salt and digest for the row with user.id
change_password(tbl, uuid, user, new_password) ==
    LET new_salt == uuid
        passwd_digest == get_passwd_digest(new_password, new_salt)
        hit == {r \in tbl : r.id = user.id}
    IN IF Cardinality(hit) = 1
       THEN [ok |-> TRUE, err |-> "", uuid |-> uuid + 1,
             tbl |-> {IF r.id = user.id
                      THEN [r EXCEPT !.password = passwd_digest, !.salt = new_salt]
                      ELSE r : r \in tbl}]
       ELSE [ok |-> FALSE, err |-> "NoSuchUser", uuid |-> uuid + 1, tbl |-> tbl]

\* a display string for every variant
message_str_Every(message) == <<(<<message[1]>>)>>

\* the display string of save_user_message: Some(text) or None
message_str(message) ==
    CASE message[1] = "File" -> <<(<<"[Shared file ", message[2], "]">>)>>
      [] message[1] = "Image" -> <<(<<"[Shared an image]">>)>>
      [] message[1] = "Text" -> <<message[2]>>
      [] OTHER -> <<>>

\* save_user_message: the history after the insert (if any)
save_user_message(hist, uuid, user, message) ==
    LET message_id == uuid
        str == message_str(message)
    IN IF str # <<>>
       THEN Append(hist, [id |-> message_id, author_id |-> user.id,
                          message |-> str[1]])
       ELSE hist

\* ensure_schema_exists on a new database: signup("admin","admin") and
\* update_user(admin.id, true, true)
BootstrapUsers ==
    LET s == signup({}, 1, "admin", "admin")
    IN update_user(s.tbl, s.user[1].id, TRUE, TRUE).tbl


\* --------------------------------------------------------- broadcast bus
BroadcastMessage(from_addr, message) == [from_addr |-> from_addr, message |-> message]

\* sessions holding a Receiver: a task that has not returned or panicked
Subscribers == {a \in Addrs : state[a] \in {"run", "publish"}}

\* usize::next_power_of_two
next_power_of_two(n) ==
    CHOOSE p \in {2^k : k \in 0..16} :
        p >= n /\ \A q \in {2^k : k \in 0..16} : q >= n => p <= q

\* channel(CAPACITY): tokio gives the channel next_power_of_two(capacity)
\* slots; a value is kept until that many newer ones have been sent
ChannelLen == next_power_of_two(CAPACITY)

\* broadcast_sub.recv(): Err(Lagged) when the next value of this
\* subscription has been overwritten, that is when more than ChannelLen
\* values are waiting
RecvLagged(s) == Len(bus) - sub[s] + 1 > ChannelLen

\* ----------------------------------------------------------------- session
NoReply == <<>>
Reply(text) == <<Text(text)>>

WelcomeText(login) == <<"Welcome, ", login>>
AlreadyExistsText(login) == <<"Username ", login, " already exists!">>
AuthFailureText == <<"Authentication failure">>
ServerErrorText == <<"Server error">>
PermissionDeniedText ==
    <<"Permission denied, login first using .login <username> <password>">>
AlreadyLoggedInText == <<"Already logged in!">>
PasswordUpdatedText == <<"Password updated successfully">>

\* What one pass through the read arm of select! does with Ok(Some(msg)):
\* the store after it, the Option<User> after it, the reply it tries to send,
\* the message it goes on to publish, whether it returned Err before any
\* reply, and the store call's result.  dbok = FALSE makes the store call
\* fail with UserError::Sql.
Outcome(tbl, hist, uuid, user, reply, publish, fatal, res) ==
    [users |-> tbl, user_messages |-> hist, next_uuid |-> uuid,
     logged_user |-> user, reply |-> reply, publish |-> publish,
     fatal |-> fatal, res |-> res]

\* an outcome that leaves the store and the session as they are
Stay(user, reply, fatal, res) ==
    Outcome(users, user_messages, next_uuid, user, reply, <<>>, fatal, res)

\* mutant of unauth_signup: a storage error answered like the Login arm does
unauth_signup_ReplyOnSql(msg, dbok) ==
    IF ~dbok THEN Stay(<<>>, Reply(ServerErrorText), FALSE, "Sql")
    ELSE LET r == signup(users, next_uuid, msg[2], msg[3])
         IN IF r.ok
            THEN Outcome(r.tbl, user_messages, r.uuid, r.user,
                         Reply(WelcomeText(msg[2])), <<>>, FALSE, "Ok")
            ELSE Stay(<<>>, Reply(AlreadyExistsText(msg[2])), FALSE, r.err)

\* run, lines 106-119: Signup while logged_user is None
unauth_signup(msg, dbok) ==
    IF ~dbok THEN Stay(<<>>, NoReply, FALSE, "Sql")
    ELSE LET r == signup(users, next_uuid, msg[2], msg[3])
         IN IF r.ok
            THEN Outcome(r.tbl, user_messages, r.uuid, r.user,
                         Reply(WelcomeText(msg[2])), <<>>, FALSE, "Ok")
            ELSE Stay(<<>>, Reply(AlreadyExistsText(msg[2])), FALSE, r.err)

\* mutant of unauth_login: a storage error only logged, like the Signup arm does
unauth_login_SilentOnSql(msg, dbok) ==
    IF ~dbok THEN Stay(<<>>, NoReply, FALSE, "Sql")
    ELSE LET r == authenticate(users, msg[2], msg[3])
         IN IF r.ok
            THEN Stay(r.user, Reply(WelcomeText(msg[2])), FALSE, "Ok")
            ELSE Stay(<<>>, Reply(AuthFailureText), FALSE, r.err)

\* mutant of unauth_login: an authentication failure returned with `?`
unauth_login_EndsOnFailure(msg, dbok) ==
    IF ~dbok THEN Stay(<<>>, Reply(ServerErrorText), FALSE, "Sql")
    ELSE LET r == authenticate(users, msg[2], msg[3])
         IN IF r.ok
            THEN Stay(r.user, Reply(WelcomeText(msg[2])), FALSE, "Ok")
            ELSE Stay(<<>>, NoReply, TRUE, r.err)

\* run, lines 120-134: Login while logged_user is None
unauth_login(msg, dbok) ==
    IF ~dbok THEN Stay(<<>>, Reply(ServerErrorText), FALSE, "Sql")
    ELSE LET r == authenticate(users, msg[2], msg[3])
         IN IF r.ok
            THEN Stay(r.user, Reply(WelcomeText(msg[2])), FALSE, "Ok")
            ELSE Stay(<<>>, Reply(AuthFailureText), FALSE, r.err)

\* mutant of unauth_other: the message handled as if the user were logged in
\* as the first user of the table
unauth_other_NoGate(msg) ==
    IF msg[1] \in {"Text", "File", "Image"}
    THEN Outcome(users,
                 save_user_message(user_messages, next_uuid,
                                   UserFrom(CHOOSE r \in users : TRUE), msg),
                 next_uuid + 1, <<>>, NoReply, <<msg>>, FALSE, "None")
    ELSE Stay(<<>>, Reply(PermissionDeniedText), FALSE, "None")

\* run, lines 135-137: any other message while logged_user is None
unauth_other(msg) == Stay(<<>>, Reply(PermissionDeniedText), FALSE, "None")

\* mutant of auth_login_or_signup: a Signup carried out for a logged-in user
auth_login_or_signup_SignsUp(user, msg) ==
    IF msg[1] = "Signup"
    THEN Outcome(signup(users, next_uuid, msg[2], msg[3]).tbl, user_messages,
                 signup(users, next_uuid, msg[2], msg[3]).uuid, <<user>>,
                 Reply(AlreadyLoggedInText), <<>>, FALSE, "None")
    ELSE Stay(<<user>>, Reply(AlreadyLoggedInText), FALSE, "None")

\* process_message_from_authenticated_client, lines 151-153
auth_login_or_signup(user, msg) ==
    Stay(<<user>>, Reply(AlreadyLoggedInText), FALSE, "None")

\* process_message_from_authenticated_client, lines 154-157
auth_passwd(user, msg, dbok) ==
    IF ~dbok THEN Stay(<<user>>, NoReply, TRUE, "Sql")
    ELSE LET r == change_password(users, next_uuid, user, msg[2])
         IN IF r.ok
            THEN Outcome(r.tbl, user_messages, r.uuid, <<user>>,
                         Reply(PasswordUpdatedText), <<>>, FALSE, "Ok")
            ELSE Outcome(users, user_messages, r.uuid, <<user>>,
                         NoReply, <<>>, TRUE, r.err)

\* mutant of auth_other: the result of save_user_message ignored
auth_other_IgnoreSaveError(user, msg, dbok) ==
    IF ~dbok THEN Outcome(users, user_messages, next_uuid, <<user>>, NoReply,
                          <<msg>>, FALSE, "Sql")
    ELSE Outcome(users, save_user_message(user_messages, next_uuid, user, msg),
                 next_uuid + 1, <<user>>, NoReply, <<msg>>, FALSE, "Ok")

\* process_message_from_authenticated_client, lines 158-159: every other
\* variant is saved, and then sent on the bus (Publish)
auth_other(user, msg, dbok) ==
    IF ~dbok THEN Stay(<<user>>, NoReply, TRUE, "Sql")
    ELSE Outcome(users, save_user_message(user_messages, next_uuid, user, msg),
                 next_uuid + 1, <<user>>, NoReply, <<msg>>, FALSE, "Ok")

\* the match of run, lines 103-137
process_message_from_unauthenticated_client(msg, dbok) ==
    CASE msg[1] = "Signup" -> unauth_signup(msg, dbok)
      [] msg[1] = "Login" -> unauth_login(msg, dbok)
      [] OTHER -> unauth_other(msg)

\* the match of process_message_from_authenticated_client, lines 150-168
process_message_from_authenticated_client(user, msg, dbok) ==
    CASE msg[1] \in {"Login", "Signup"} -> auth_login_or_signup(user, msg)
      [] msg[1] = "Passwd" -> auth_passwd(user, msg, dbok)
      [] OTHER -> auth_other(user, msg, dbok)

\* mutant of process_message: the session looks its user up again and treats
\* a deactivated one as logged out
process_message_RechecksActive(s, msg, dbok) ==
    IF logged_user[s] # <<>>
          /\ \E r \in users : r.id = logged_user[s][1].id /\ r.active = 1
    THEN process_message_from_authenticated_client(logged_user[s][1], msg, dbok)
    ELSE process_message_from_unauthenticated_client(msg, dbok)

\* mutant of process_message: the Login and Signup arms of run come before
\* the test of logged_user
process_message_LoginFirst(s, msg, dbok) ==
    IF logged_user[s] # <<>> /\ msg[1] \notin {"Login", "Signup"}
    THEN process_message_from_authenticated_client(logged_user[s][1], msg, dbok)
    ELSE process_message_from_unauthenticated_client(msg, dbok)

process_message(s, msg, dbok) ==
    IF logged_user[s] # <<>>
    THEN process_message_from_authenticated_client(logged_user[s][1], msg, dbok)
    ELSE process_message_from_unauthenticated_client(msg, dbok)

\* A frame written to the client's socket: a reply to its own frame (seq 0)
\* or the forward of bus[seq].
Written(src, msg, seq) == [src |-> src, msg |-> msg, seq |-> seq]

\* mutants of ShouldForward: one of the two conditions forgotten or inverted
ShouldForward_NoLoginCheck(s, msg) == s # msg.from_addr
ShouldForward_NoAddrCheck(s, msg) == logged_user[s] # <<>>
ShouldForward_OnlyOwn(s, msg) == s = msg.from_addr /\ logged_user[s] # <<>>

\* the branch of the recv arm, lines 96-98
ShouldForward(s, msg) == s # msg.from_addr /\ logged_user[s] # <<>>

\* what the environment may do to a store call or a socket write: succeed,
\* or fail while faults remain
StoreOutcomes == IF faults < env.faults THEN {TRUE, FALSE} ELSE {TRUE}
WriteOutcomes == IF faults < env.faults THEN {TRUE, FALSE} ELSE {TRUE}

TypeOK ==
    /\ accepted \in 0..env.sessions
    /\ nframes \in 0..env.reads
    /\ faults \in 0..env.faults
    /\ state \in [Addrs -> {"none", "run", "publish", "err", "panic"}]
    /\ \A s \in Addrs : Len(logged_user[s]) <= 1 /\ Len(pending[s]) <= 1

\* the state after Server::new: a new database, a channel, no connection
\* the tables of INIT_SQL
TableNames == {"users", "user_messages"}

\* the database file and UserService::new at the start of a behaviour
StartStore(tbls, rows, uuid, new) ==
    /\ tables = tbls
    /\ users = rows
    /\ user_messages = <<>>
    /\ next_uuid = uuid
    /\ startup = new

Started == [pc |-> "Ok", starts |-> 1]

\* everything else at the start of a behaviour
StartRest(e, callers, senders) ==
    /\ env = e
    /\ bus = <<>>
    /\ accepted = 0
    /\ state = [s \in Addrs |-> "none"]
    /\ logged_user = [s \in Addrs |-> <<>>]
    /\ sub = [s \in Addrs |-> 1]
    /\ pending = [s \in Addrs |-> <<>>]
    /\ sent = [s \in Addrs |-> <<>>]
    /\ nframes = 0
    /\ faults = 0
    /\ calls = callers
    /\ wire = <<>>
    /\ closed = FALSE
    /\ client_wrote = <<>>
    /\ reader = [pc |-> "idle"]
    /\ got = <<>>
    /\ out = <<>>
    /\ started = <<>>
    /\ task = senders
    /\ guard = 0
    /\ stdin_reader = [pc |-> "read_line"]
    /\ listener = [pc |-> "accept", done |-> {}]
    /\ mux = [pc |-> "select", socket |-> 0, waiting |-> 0, read |-> 0, recv |-> 0]
    /\ transit = <<>>
    /\ xmit = [pc |-> "serialize"]
    /\ watch = [value |-> <<>>, changed |-> FALSE, log |-> <<>>]
    /\ client = [pc |-> "select", sent |-> <<>>, received |-> 0]

\* the state after Server::new on a new database
StartAll(e, callers, senders) ==
    /\ StartStore(TableNames, BootstrapUsers, 3, Started)
    /\ StartRest(e, callers, senders)

StartWith(e, callers) == StartAll(e, callers, <<>>)

Start(e) == StartWith(e, <<>>)

Init ==
    Start([frames |-> Frames, sessions |-> MaxSessions, reads |-> MaxFrames,
           faults |-> MaxFaults])

\* Server::listen: accept, build the session, spawn it; run subscribes
Accept ==
    /\ accepted < env.sessions
    /\ accepted' = accepted + 1
    /\ state' = [state EXCEPT ![accepted + 1] = "run"]
    /\ logged_user' = [logged_user EXCEPT ![accepted + 1] = <<>>]
    /\ sub' = [sub EXCEPT ![accepted + 1] = Len(bus) + 1]
    /\ UNCHANGED <<calls, tcp, elsewhere, env, users, user_messages, next_uuid, bus, pending, sent,
                   nframes, faults>>

\* the recv arm of select!, lines 94-99
RecvBroadcast(s) ==
    /\ state[s] = "run"
    /\ sub[s] <= Len(bus)
    /\ IF RecvLagged(s)
       THEN  \* Err(Lagged): unwrap panics, the task is gone
            /\ state' = [state EXCEPT ![s] = "panic"]
            /\ UNCHANGED <<sub, sent, faults>>
       ELSE \E wok \in WriteOutcomes :
            LET msg == bus[sub[s]] IN
            /\ sub' = [sub EXCEPT ![s] = sub[s] + 1]
            /\ IF ShouldForward(s, msg)
               THEN IF wok
                    THEN /\ sent' = [sent EXCEPT ![s] =
                                Append(sent[s], Written("bus", msg.message, sub[s]))]
                         /\ UNCHANGED <<state, faults>>
                    ELSE /\ state' = [state EXCEPT ![s] = "err"]
                         /\ faults' = faults + 1
                         /\ UNCHANGED sent
               ELSE UNCHANGED <<state, sent, faults>>
    /\ UNCHANGED <<calls, tcp, elsewhere, env, users, user_messages, next_uuid, bus, accepted,
                   logged_user, pending, nframes>>

\* the read arm of select! with Ok(Some(msg)), lines 100-137, for one
\* message, one outcome of the store call (if the arm makes one) and one
\* outcome of the write of the reply (if the arm sends one)
ReadFrameWith(s, msg, dbok, wok) ==
    LET o == process_message(s, msg, dbok)
        wrote == o.reply # <<>> /\ ~o.fatal /\ wok
        failed == o.fatal \/ (o.reply # <<>> /\ ~wok)
    IN /\ state[s] = "run"
       /\ nframes < env.reads
       /\ nframes' = nframes + 1
       /\ users' = o.users
       /\ user_messages' = o.user_messages
       /\ next_uuid' = o.next_uuid
       /\ logged_user' = [logged_user EXCEPT ![s] = o.logged_user]
       /\ sent' = [sent EXCEPT ![s] =
                     IF wrote THEN Append(sent[s], Written("reply", o.reply[1], 0))
                     ELSE sent[s]]
       /\ pending' = [pending EXCEPT ![s] = IF failed THEN <<>> ELSE o.publish]
       /\ state' = [state EXCEPT ![s] =
                     IF failed THEN "err"
                     ELSE IF o.publish # <<>> THEN "publish" ELSE "run"]
       /\ faults' = IF o.res = "Sql" \/ (o.reply # <<>> /\ ~o.fatal /\ ~wok)
                    THEN faults + 1 ELSE faults
       /\ UNCHANGED <<calls, tcp, elsewhere, env, bus, accepted, sub>>

ReadFrame(s) ==
    \E msg \in env.frames, dbok \in StoreOutcomes :
        \E wok \in IF process_message(s, msg, dbok).res = "Sql" THEN {TRUE}
                   ELSE WriteOutcomes :
            ReadFrameWith(s, msg, dbok, wok)

\* the read arm with Ok(None): a zero-length frame, line 138
ReadNone(s) ==
    /\ state[s] = "run"
    /\ nframes < env.reads
    /\ nframes' = nframes + 1
    /\ UNCHANGED <<calls, tcp, elsewhere, env, users, user_messages, next_uuid, bus, accepted, state,
                   logged_user, sub, pending, sent, faults>>

\* the read arm with Err(stream_err): end of stream, io or decode error, line 102
ReadErr(s) ==
    /\ state[s] = "run"
    /\ nframes < env.reads
    /\ nframes' = nframes + 1
    /\ state' = [state EXCEPT ![s] = "err"]
    /\ UNCHANGED <<calls, tcp, elsewhere, env, users, user_messages, next_uuid, bus, accepted,
                   logged_user, sub, pending, sent, faults>>

\* mutant of Publish: a channel that hands out the newest value first
Publish_Front(s) ==
    /\ state[s] = "publish"
    /\ pending' = [pending EXCEPT ![s] = <<>>]
    /\ bus' = <<BroadcastMessage(s, pending[s][1])>> \o bus
    /\ state' = [state EXCEPT ![s] = "run"]
    /\ UNCHANGED <<calls, tcp, elsewhere, env, users, user_messages, next_uuid, accepted, logged_user,
                   sub, sent, nframes, faults>>

\* broadcaster.send, lines 160-166: Err only when no Receiver is alive
Publish(s) ==
    /\ state[s] = "publish"
    /\ pending' = [pending EXCEPT ![s] = <<>>]
    /\ IF Subscribers = {}
       THEN /\ state' = [state EXCEPT ![s] = "err"]
            /\ UNCHANGED bus
       ELSE /\ bus' = Append(bus, BroadcastMessage(s, pending[s][1]))
            /\ state' = [state EXCEPT ![s] = "run"]
    /\ UNCHANGED <<calls, tcp, elsewhere, env, users, user_messages, next_uuid, accepted, logged_user,
                   sub, sent, nframes, faults>>

Next ==
    \/ Accept
    \/ \E s \in Addrs : RecvBroadcast(s)
    \/ \E s \in Addrs : ReadFrame(s)
    \/ \E s \in Addrs : ReadNone(s)
    \/ \E s \in Addrs : ReadErr(s)
    \/ \E s \in Addrs : Publish(s)

Spec == Init /\ [][Next]_vars

\* The chat scenario under a fair scheduler: a task that can take the recv
\* arm of select!, or that is about to call broadcaster.send, does so.
ChatFrames == {Login("admin", "admin"), Text(<<"hi">>)}

FanInit ==
    Start([frames |-> ChatFrames, sessions |-> FanSessions, reads |-> FanFrames,
           faults |-> 0])

FanFairness ==
    \A s \in 1..FanSessions : WF_vars(RecvBroadcast(s)) /\ WF_vars(Publish(s))

FanSpec == FanInit /\ [][Next]_vars /\ FanFairness

\* ------------------------------------------------- callers of the store
\* The store is one UserService shared by every session and by the web
\* routes; each call runs in its own transaction on a pooled connection, so
\* calls of different callers overlap.  A caller is a session or a web
\* request handler.
StoreClients == 2
StoreCalls == 2
AdminCalls == 3

StoreNames == {"bob", "eve"}
AllNames == {"admin"} \cup StoreNames

\* calls[c]: the signup in progress (between its select and its insert), and
\* the calls c has completed as <<operation, name, password, result>>
IdleCaller == [pc |-> "idle", username |-> "", password |-> "", log |-> <<>>]

Returned(c, op, username, password, res) ==
    [calls EXCEPT ![c] = [pc |-> "idle", username |-> "", password |-> "",
                          log |-> Append(calls[c].log, <<op, username, password, res>>)]]

\* mutant of uq_users_name: a users table without the unique index
uq_users_name_Absent(tbl, name) == TRUE

\* INIT_SQL, create unique index uq_users_name ON users (name): an insert of
\* a name the table already holds is refused
uq_users_name(tbl, name) == ~ \E r \in tbl : r.name = name

\* signup, lines 111-113: the row it inserts
new_user_row(uuid, username, password) ==
    DbUser(uuid, username, 1, 0, get_passwd_digest(password, uuid + 1), uuid + 1)

\* signup, lines 107-109: begin, then the select by name
SignupBegin(c, username, password) ==
    /\ calls[c].pc = "idle"
    /\ Len(calls[c].log) < env.calls
    /\ calls' = IF get_user_by_name(users, username) # <<>>
                THEN Returned(c, "signup", username, password, "UserAlreadyExists")
                ELSE [calls EXCEPT ![c] = [pc |-> "insert", username |-> username,
                                           password |-> password, log |-> calls[c].log]]
    /\ UNCHANGED <<tcp, elsewhere, env, users, user_messages, next_uuid, bus, accepted, state,
                   logged_user, sub, pending, sent, nframes, faults>>

\* signup, lines 110-131: two uuids, the insert, the commit.  The insert
\* fails with UserError::Sql when the database refuses it: the unique index,
\* or (dbok false) a lock or io error.
SignupInsert(c, dbok) ==
    LET username == calls[c].username
        password == calls[c].password
        done == dbok /\ uq_users_name(users, username)
    IN /\ calls[c].pc = "insert"
       /\ next_uuid' = next_uuid + 2
       /\ users' = IF done THEN users \cup {new_user_row(next_uuid, username, password)}
                   ELSE users
       /\ calls' = Returned(c, "signup", username, password, IF done THEN "Ok" ELSE "Sql")
       /\ faults' = IF dbok THEN faults ELSE faults + 1
       /\ UNCHANGED <<tcp, elsewhere, env, user_messages, bus, accepted, state, logged_user, sub,
                      pending, sent, nframes>>

\* change_password, lines 156-172: one update statement in its transaction
ChangePassword(c, user, new_password, dbok) ==
    LET r == change_password(users, next_uuid, user, new_password)
    IN /\ calls[c].pc = "idle"
       /\ Len(calls[c].log) < env.calls
       /\ next_uuid' = r.uuid
       /\ users' = IF dbok THEN r.tbl ELSE users
       /\ calls' = Returned(c, "passwd", user.name, new_password,
                            IF ~dbok THEN "Sql" ELSE IF r.ok THEN "Ok" ELSE r.err)
       /\ faults' = IF dbok THEN faults ELSE faults + 1
       /\ UNCHANGED <<tcp, elsewhere, env, user_messages, bus, accepted, state, logged_user, sub,
                      pending, sent, nframes>>

\* web.rs, post /update-user: update_user with the values of the form
UpdateUser(user_id, is_admin, is_active) ==
    /\ users' = update_user(users, user_id, is_admin, is_active).tbl
    /\ UNCHANGED <<calls, tcp, elsewhere, env, user_messages, next_uuid, bus, accepted, state,
                   logged_user, sub, pending, sent, nframes, faults>>

\* ids a form may carry: those of the table, and one of no user
UserIds == {r.id : r \in users} \cup {0}

\* the state after Server::new, seen by StoreClients callers of the store
StoreInit ==
    StartWith([frames |-> {}, sessions |-> 0, reads |-> 0, faults |-> MaxFaults,
               calls |-> StoreCalls, names |-> StoreNames],
              [c \in 1..StoreClients |-> IdleCaller])

StoreNext ==
    \/ \E c \in DOMAIN calls, n \in env.names, p \in Passwords : SignupBegin(c, n, p)
    \/ \E c \in DOMAIN calls, dbok \in StoreOutcomes : SignupInsert(c, dbok)
    \/ \E c \in DOMAIN calls, r \in users, p \in Passwords, dbok \in StoreOutcomes :
          ChangePassword(c, UserFrom(r), p, dbok)

\* signup, authenticate and change_password called by concurrent callers
StoreSpec == StoreInit /\ [][StoreNext]_vars

\* the same with an administrator posting /update-user
AdminStoreNext ==
    \/ StoreNext
    \/ \E id \in UserIds, is_admin \in BOOLEAN, is_active \in BOOLEAN :
          UpdateUser(id, is_admin, is_active)

\* one caller of the store beside the administrator
AdminStoreInit ==
    StartWith([frames |-> {}, sessions |-> 0, reads |-> 0, faults |-> 0,
               calls |-> AdminCalls, names |-> {"bob"}],
              [c \in {1} |-> IdleCaller])

AdminStoreSpec == AdminStoreInit /\ [][AdminStoreNext]_vars

\* ------------------------------------- sessions and the administrator
\* Two chat clients while an administrator deactivates users on the web
\* page (the form carries the user's admin flag as it is).
AdminSessions == 2
AdminFrames == 5

AdminChatFrames == {Login("admin", "admin"), Signup("bob", "pw"), Text(<<"hi">>)}

AdminInit ==
    Start([frames |-> AdminChatFrames, sessions |-> AdminSessions,
           reads |-> AdminFrames, faults |-> 0])

AdminNext ==
    \/ Next
    \/ \E r \in users : UpdateUser(r.id, r.admin = 1, FALSE)

AdminSpec == AdminInit /\ [][AdminNext]_vars

\* ------------------------------------------------- a slow subscriber
\* Two clients log in as admin; client 1 then sends Texts, client 2 sends
\* nothing more.  No store or socket fault.
LagSessions == 2
LagFrames == 35

LagInit ==
    Start([frames |-> ChatFrames, sessions |-> LagSessions, reads |-> LagFrames,
           faults |-> 0])

LagNext ==
    \/ Accept
    \/ \E s \in Addrs : RecvBroadcast(s)
    \/ \E s \in Addrs :
          logged_user[s] = <<>> /\ ReadFrameWith(s, Login("admin", "admin"), TRUE, TRUE)
    \/ logged_user[1] # <<>> /\ ReadFrameWith(1, Text(<<"hi">>), TRUE, TRUE)
    \/ \E s \in Addrs : Publish(s)

LagSpec == LagInit /\ [][LagNext]_vars

\* -------------------------------------------------------------- the codec
\* On the wire a String and a Vec<u8> are sequences of bytes (0..127 here).
\* bincode's serialize writes the variant index as u32 and every length as
\* u64, little endian; its deserialize accepts trailing bytes.

\* to_le_bytes: the w low bytes of n, lowest first
RECURSIVE le_bytes(_, _)
le_bytes(n, w) == IF w = 0 THEN <<>> ELSE <<n % 256>> \o le_bytes(n \div 256, w - 1)

\* from_le_bytes
RECURSIVE from_le_bytes(_)
from_le_bytes(b) == IF b = <<>> THEN 0 ELSE b[1] + 256 * from_le_bytes(Tail(b))

\* the index of a variant in enum Message
variant_index(m) ==
    CASE m[1] = "File" -> 0
      [] m[1] = "Image" -> 1
      [] m[1] = "Text" -> 2
      [] m[1] = "Login" -> 3
      [] m[1] = "Signup" -> 4
      [] m[1] = "Passwd" -> 5
      [] m[1] = "Quit" -> 6

\* a String or Vec<u8> field
ser_bytes(v) == le_bytes(Len(v), 8) \o v

\* bincode::serialize(&Message)
serialize(m) ==
    le_bytes(variant_index(m), 4) \o
        (CASE m[1] \in {"File", "Login", "Signup"} -> ser_bytes(m[2]) \o ser_bytes(m[3])
           [] m[1] \in {"Image", "Text", "Passwd"} -> ser_bytes(m[2])
           [] m[1] = "Quit" -> <<>>)

\* a String or Vec<u8> field read at position pos of b
de_bytes(b, pos) ==
    LET len == IF pos + 7 > Len(b) \/ \E i \in (pos + 3)..(pos + 7) : b[i] # 0
               THEN -1
               ELSE from_le_bytes(SubSeq(b, pos, pos + 2))
    IN IF len < 0 \/ pos + 7 + len > Len(b)
       THEN [ok |-> FALSE, val |-> <<>>, next |-> pos]
       ELSE [ok |-> TRUE, val |-> SubSeq(b, pos + 8, pos + 7 + len),
             next |-> pos + 8 + len]

\* results of read_next_message
Some(m) == <<"Some", m>>
None == <<"None">>
Err(e) == <<"Err", e>>
SerdeError == <<"SerdeError">>
IOError(code) == <<"IOError", code>>
IncorrectTransmitByteCountError(expected, actual) ==
    <<"IncorrectTransmitByteCountError", expected, actual>>

\* bincode::deserialize::<Message>(b), as the result read_next_message gives
deserialize(b) ==
    IF Len(b) < 4 \/ b[4] # 0 THEN Err(SerdeError)
    ELSE LET idx == from_le_bytes(SubSeq(b, 1, 3))
             f1 == de_bytes(b, 5)
             f2 == de_bytes(b, f1.next)
         IN CASE idx = 0 /\ f1.ok /\ f2.ok -> Some(File(f1.val, f2.val))
              [] idx = 1 /\ f1.ok -> Some(Image(f1.val))
              [] idx = 2 /\ f1.ok -> Some(Text(f1.val))
              [] idx = 3 /\ f1.ok /\ f2.ok -> Some(Login(f1.val, f2.val))
              [] idx = 4 /\ f1.ok /\ f2.ok -> Some(Signup(f1.val, f2.val))
              [] idx = 5 /\ f1.ok -> Some(Passwd(f1.val))
              [] idx = 6 -> Some(Quit)
              [] OTHER -> Err(SerdeError)

\* send_message, lines 59-65: the length as u32, then the serialized message
frame(m) == le_bytes(Len(serialize(m)), 4) \o serialize(m)

\* a frame of length zero, as a peer may write it
ZeroFrame == <<"Zero">>
frame_of(item) == IF item = ZeroFrame THEN le_bytes(0, 4) ELSE frame(item)

\* ------------------------------------------------ one connection, in bytes
\* A client writes frames to its socket and closes it; the session's
\* read_next_message reads them.  tcp_stream.read returns, of the bytes
\* that have arrived, as many as the transport hands over at once: at least
\* one, at most the length of the buffer; 0 only at end of stream.
TcpSends == 2

\* the messages of the client: every variant, empty and non-empty payloads
TcpMessages ==
    {File(<<>>, <<>>), File(<<97>>, <<1>>), Image(<<>>), Image(<<1>>),
     Text(<<>>), Text(<<97>>), Login(<<97>>, <<>>), Signup(<<>>, <<98>>),
     Passwd(<<>>), Passwd(<<98>>), Quit}

ECONNRESET == 54

\* listen, lines 64-74: how the end of run is logged
listen_outcome(result) ==
    IF result[1] # "Err" THEN "none"
    ELSE IF result[2][1] = "IOError" /\ result[2][2] = ECONNRESET
    THEN "info: disconnected"
    ELSE "error"

\* the byte counts one read into a buffer of len bytes may return
ReadCounts(len) ==
    IF wire = <<>>
    THEN IF closed THEN {0} ELSE {}
    ELSE 1..(IF len < Len(wire) THEN len ELSE Len(wire))

Drop(k) == SubSeq(wire, k + 1, Len(wire))

\* run returns Err(result's error): the task ends and listen logs it
TaskEnded(result) == [pc |-> "ended", log |-> listen_outcome(result)]

\* send_message of the client, both writes complete
ClientSend(m) ==
    /\ ~closed
    /\ Len(client_wrote) < env.sends
    /\ wire' = wire \o frame(m)
    /\ client_wrote' = Append(client_wrote, m)
    /\ UNCHANGED <<elsewhere, calls, closed, reader, got, env, users, user_messages, next_uuid,
                   bus, accepted, state, logged_user, sub, pending, sent, nframes,
                   faults>>

\* a peer writing a length prefix of zero
ClientSendZero ==
    /\ ~closed
    /\ Len(client_wrote) < env.sends
    /\ wire' = wire \o frame_of(ZeroFrame)
    /\ client_wrote' = Append(client_wrote, ZeroFrame)
    /\ UNCHANGED <<elsewhere, calls, closed, reader, got, env, users, user_messages, next_uuid,
                   bus, accepted, state, logged_user, sub, pending, sent, nframes,
                   faults>>

\* the client closes its socket
ClientClose ==
    /\ ~closed
    /\ closed' = TRUE
    /\ UNCHANGED <<elsewhere, calls, wire, client_wrote, reader, got, env, users, user_messages,
                   next_uuid, bus, accepted, state, logged_user, sub, pending, sent,
                   nframes, faults>>

\* read_next_message, lines 33-42: one read into size_buf that returns k bytes
ReadPrefix(k) ==
    /\ reader.pc = "idle"
    /\ k \in ReadCounts(4)
    /\ wire' = Drop(k)
    /\ IF k # 4
       THEN /\ got' = Append(got, Err(IncorrectTransmitByteCountError(4, k)))
            /\ reader' = TaskEnded(Err(IncorrectTransmitByteCountError(4, k)))
       ELSE LET message_size == from_le_bytes(SubSeq(wire, 1, 4))
            IN IF message_size = 0
               THEN got' = Append(got, None) /\ UNCHANGED reader
               ELSE /\ reader' = [pc |-> "body", n |-> message_size,
                                  buf |-> [i \in 1..message_size |-> 0], total |-> 0]
                    /\ UNCHANGED got
    /\ UNCHANGED <<elsewhere, calls, closed, client_wrote, env, users, user_messages, next_uuid,
                   bus, accepted, state, logged_user, sub, pending, sent, nframes,
                   faults>>

\* read_next_n_bytes, line 81: one read into the whole buffer that returns k
\* bytes, written from the start of the buffer; then, with total_bytes >= n,
\* lines 46-49: the buffer is deserialized.  (At end of stream the read
\* returns 0 and the loop runs on without any change.)
ReadBody(k) ==
    LET buf == [i \in 1..reader.n |-> IF i <= k THEN wire[i] ELSE reader.buf[i]]
        total == reader.total + k
    IN /\ reader.pc = "body"
       /\ k \in ReadCounts(reader.n) \ {0}
       /\ wire' = Drop(k)
       /\ IF total < reader.n
          THEN /\ reader' = [reader EXCEPT !.buf = buf, !.total = total]
               /\ UNCHANGED got
          ELSE /\ got' = Append(got, deserialize(buf))
               /\ reader' = IF deserialize(buf)[1] = "Err"
                            THEN TaskEnded(deserialize(buf))
                            ELSE [pc |-> "idle"]
       /\ UNCHANGED <<elsewhere, calls, closed, client_wrote, env, users, user_messages,
                      next_uuid, bus, accepted, state, logged_user, sub, pending,
                      sent, nframes, faults>>

TcpInit ==
    Start([frames |-> {}, sessions |-> 0, reads |-> 0, faults |-> 0,
           sends |-> TcpSends, msgs |-> TcpMessages])

TcpNext ==
    \/ \E m \in env.msgs : ClientSend(m)
    \/ ClientSendZero
    \/ ClientClose
    \/ \E k \in 0..4 : ReadPrefix(k)
    \/ \E k \in 1..Len(wire) : ReadBody(k)

TcpSpec == TcpInit /\ [][TcpNext]_vars

\* ------------------------------------------------------------ observations
ChatVariants == {"Text", "File", "Image"}

\* positions of sent[s] that are forwards of a bus value
Forwards(s) == {i \in 1..Len(sent[s]) : sent[s][i].src = "bus"}

\* how many times bus[k] was written to the socket of s
Copies(s, k) == Cardinality({i \in Forwards(s) : sent[s][i].seq = k})

\* s has taken bus[k] out of its subscription
Dequeued(s, k) == k <= Len(bus) /\ sub[s] > k

\* a reply Text(text) as it stands in sent
ReplyFrame(text) == [src |-> "reply", msg |-> <<"Text", text>>, seq |-> 0]

\* the step replies Text(text) to s: the frame is written and the session
\* runs on, or (wok false) the write fails and run returns Err
RepliedWith(s, text, wok) ==
    IF wok
    THEN sent'[s] = Append(sent[s], ReplyFrame(text)) /\ state'[s] = "run"
    ELSE sent'[s] = sent[s] /\ state'[s] = "err"

\* s is authenticated, alive, and has bus[k] waiting in its subscription
Awaits(s, k) ==
    /\ k <= Len(bus) /\ sub[s] <= k
    /\ state[s] \in {"run", "publish"}
    /\ logged_user[s] # <<>>

Ended(s) == state[s] \in {"err", "panic"}

\* the step appends exactly one history row, by this author with this text
AppendsOneRow(author_id, display) ==
    /\ Len(user_messages') = Len(user_messages) + 1
    /\ SubSeq(user_messages', 1, Len(user_messages)) = user_messages
    /\ user_messages'[Len(user_messages')].author_id = author_id
    /\ user_messages'[Len(user_messages')].message = display

\* the history text of a chat message, as the specification gives it
ShownAs(m) ==
    CASE m[1] = "Text" -> m[2]
      [] m[1] = "File" -> <<"[Shared file ", m[2], "]">>
      [] m[1] = "Image" -> <<"[Shared an image]">>

\* the user id a session publishes under
AuthorOf(k) == logged_user[bus[k].from_addr][1].id

Rows(author_id, display) ==
    {i \in 1..Len(user_messages) :
        user_messages[i].author_id = author_id /\ user_messages[i].message = display}

Published(author_id, display) ==
    {k \in 1..Len(bus) :
        /\ bus[k].message[1] \in ChatVariants
        /\ AuthorOf(k) = author_id /\ ShownAs(bus[k].message) = display}

\* ------------------------------------------------------------------ claims
\* In the step formulas, ReadFrameWith(s, msg, dbok, wok) says that the step
\* is session s handling the inbound frame msg, with the store call (if any)
\* failing with a storage error iff ~dbok and the write of the reply (if
\* any) failing iff ~wok.

\* C1: a session whose logged_user is None has been sent no frame that came
\* from the broadcast bus; every frame on its socket is a reply to a frame
\* of its own.
C1_UnauthenticatedIsolation ==
    \A s \in Addrs :
        logged_user[s] = <<>> => \A i \in 1..Len(sent[s]) : sent[s][i].src = "reply"

\* C1 witness: session 1 is still unauthenticated and has taken a Text of
\* session 2 out of its subscription.
C1_Witness ==
    /\ env.sessions >= 2
    /\ state[1] = "run" /\ logged_user[1] = <<>>
    /\ Len(bus) >= 1 /\ bus[1].from_addr = 2 /\ bus[1].message[1] = "Text"
    /\ Dequeued(1, 1)

\* C2: no bus value is ever written to the socket of the session that
\* published it.
C2_NoEchoToOriginator ==
    \A s \in Addrs : \A i \in Forwards(s) : bus[sent[s][i].seq].from_addr # s

\* C2 witness: an authenticated, running session has taken its own value
\* out of its subscription.
C2_Witness ==
    \E s \in Addrs : \E k \in 1..Len(bus) :
        /\ bus[k].from_addr = s /\ Dequeued(s, k)
        /\ state[s] = "run" /\ logged_user[s] # <<>>

\* C3, no duplicates and no echo: a bus value is written at most once to any
\* socket and never to its publisher's.
C3_AtMostOnce ==
    \A s \in Addrs : \A k \in 1..Len(bus) :
        Copies(s, k) <= 1 /\ (bus[k].from_addr = s => Copies(s, k) = 0)

\* C3, history: a Text frame of an authenticated session adds exactly one
\* row (author_id of the sender, the text), and is then published.
C3_OneRow ==
    \A s \in Addrs, msg \in env.frames, wok \in BOOLEAN :
        (msg[1] = "Text" /\ logged_user[s] # <<>> /\ ReadFrameWith(s, msg, TRUE, wok)) =>
            /\ AppendsOneRow(logged_user[s][1].id, msg[2])
            /\ state'[s] = "publish" /\ pending'[s] = <<msg>>

\* C3: with A, B, C authenticated and A sending one Text, B and C are each
\* eventually sent exactly one copy (as long as they stay connected: a session
\* that has ended is sent nothing more), A is sent none, and exactly one history
\* row of A with that text is added.
C3_FanOut ==
    /\ []C3_AtMostOnce
    /\ [][C3_OneRow]_vars
    /\ \A s \in 1..FanSessions : \A k \in 1..FanFrames :
          (Awaits(s, k) /\ bus[k].from_addr # s /\ bus[k].message[1] = "Text")
              ~> (Copies(s, k) = 1 \/ Ended(s))

\* C3 witness: three authenticated sessions, one Text of session 1 on the bus,
\* one copy on the sockets of 2 and 3, none on 1's, one history row.
C3_Witness ==
    /\ env.sessions >= 3
    /\ \A s \in 1..3 : state[s] = "run" /\ logged_user[s] # <<>> /\ Dequeued(s, 1)
    /\ Len(bus) = 1 /\ bus[1].from_addr = 1 /\ bus[1].message = <<"Text", <<"hi">>>>
    /\ Copies(1, 1) = 0 /\ Copies(2, 1) = 1 /\ Copies(3, 1) = 1
    /\ Len(user_messages) = 1
    /\ user_messages[1].author_id = logged_user[1][1].id
    /\ user_messages[1].message = <<"hi">>

\* C4, state part: the chat messages on the bus never outnumber the history
\* rows of the same author and text, so each has a row of its own.
C4_EveryPublishedHasRow ==
    \A k \in 1..Len(bus) :
        bus[k].message[1] \in ChatVariants =>
            Cardinality(Rows(AuthorOf(k), ShownAs(bus[k].message)))
                >= Cardinality(Published(AuthorOf(k), ShownAs(bus[k].message)))

\* C4, step part: a chat frame whose save fails with a storage error adds no
\* row, is not published, and ends the session.
C4_FailedSaveNotPublished ==
    \A s \in Addrs, msg \in env.frames :
        (msg[1] \in ChatVariants /\ logged_user[s] # <<>>
              /\ ReadFrameWith(s, msg, FALSE, TRUE)) =>
            /\ user_messages' = user_messages /\ bus' = bus
            /\ pending'[s] = <<>> /\ state'[s] = "err"

\* C4: every Text/File/Image on the bus already has its history row; a row
\* may exist before (or without) its publication; a failed save publishes
\* nothing.
C4_PersistBeforePublish ==
    []C4_EveryPublishedHasRow /\ [][C4_FailedSaveNotPublished]_vars

\* C4 witness: a message is in the history and not yet on the bus.
C4_Witness ==
    \E s \in Addrs :
        /\ state[s] = "publish" /\ pending[s][1][1] = "File"
        /\ Cardinality(Rows(logged_user[s][1].id, ShownAs(pending[s][1]))) = 1
        /\ Published(logged_user[s][1].id, ShownAs(pending[s][1])) = {}

\* C5: a Login handled while unauthenticated: if authenticate succeeds the
\* session holds the user of that name and replies "Welcome, u"; if it fails
\* with AuthenticationFailed the reply is "Authentication failure", on a
\* storage error "Server error", and in both the session stays
\* unauthenticated and keeps running (it ends only if the write of the reply
\* itself fails).
C5_Step ==
    \A s \in Addrs, msg \in env.frames, dbok \in BOOLEAN, wok \in BOOLEAN :
        (msg[1] = "Login" /\ logged_user[s] = <<>> /\ ReadFrameWith(s, msg, dbok, wok)) =>
            /\ users' = users /\ user_messages' = user_messages /\ bus' = bus
            /\ pending'[s] = <<>>
            /\ IF ~dbok
               THEN logged_user'[s] = <<>> /\ RepliedWith(s, <<"Server error">>, wok)
               ELSE IF authenticate(users, msg[2], msg[3]).ok
               THEN /\ Len(logged_user'[s]) = 1
                    /\ logged_user'[s][1].name = msg[2]
                    /\ \E r \in users : r.name = msg[2] /\ r.id = logged_user'[s][1].id
                    /\ RepliedWith(s, <<"Welcome, ", msg[2]>>, wok)
               ELSE /\ authenticate(users, msg[2], msg[3]).err = "AuthenticationFailed"
                    /\ logged_user'[s] = <<>>
                    /\ RepliedWith(s, <<"Authentication failure">>, wok)

C5_LoginWhileUnauthenticated == [][C5_Step]_vars

\* C5 witness: one session was refused, then hit a storage error, then
\* logged in, and is running.
C5_Witness ==
    \E s \in Addrs :
        /\ state[s] = "run" /\ Len(logged_user[s]) = 1
        /\ sent[s] = << ReplyFrame(<<"Authentication failure">>),
                        ReplyFrame(<<"Server error">>),
                        ReplyFrame(<<"Welcome, ", "admin">>) >>

\* C6: a Signup handled while unauthenticated: on success (the name is free)
\* the store has the new user, the session holds it and replies
\* "Welcome, u"; on UserAlreadyExists it replies
\* "Username u already exists!" and stays unauthenticated; on any other error
\* it sends nothing, stays unauthenticated and keeps running.
C6_Step ==
    \A s \in Addrs, msg \in env.frames, dbok \in BOOLEAN, wok \in BOOLEAN :
        (msg[1] = "Signup" /\ logged_user[s] = <<>> /\ ReadFrameWith(s, msg, dbok, wok)) =>
            /\ user_messages' = user_messages /\ bus' = bus /\ pending'[s] = <<>>
            /\ IF ~dbok
               THEN /\ logged_user'[s] = <<>> /\ users' = users
                    /\ sent'[s] = sent[s] /\ state'[s] = "run"
               ELSE IF \E r \in users : r.name = msg[2]
               THEN /\ logged_user'[s] = <<>> /\ users' = users
                    /\ RepliedWith(s, <<"Username ", msg[2], " already exists!">>, wok)
               ELSE /\ Len(logged_user'[s]) = 1
                    /\ logged_user'[s][1].name = msg[2]
                    /\ \E r \in users' :
                          /\ users' = users \cup {r}
                          /\ r.name = msg[2] /\ r.id = logged_user'[s][1].id
                    /\ RepliedWith(s, <<"Welcome, ", msg[2]>>, wok)

C6_SignupWhileUnauthenticated == [][C6_Step]_vars

\* C6 witness: the only session was told the name exists; its second frame
\* met a storage error and nothing more was sent (so it was a Signup: the
\* Login arm replies "Server error"); it still runs unauthenticated.
C6_Witness ==
    /\ accepted = 1 /\ nframes = 2 /\ faults = 1
    /\ state[1] = "run" /\ logged_user[1] = <<>>
    /\ sent[1] = << ReplyFrame(<<"Username ", "admin", " already exists!">>) >>

\* C7: a Text, File, Image, Passwd or Quit handled while unauthenticated gets
\* exactly one reply, the permission-denied text, and changes nothing else:
\* the session stays unauthenticated, users, history and bus are as before and
\* nothing is about to be published.
C7_Step ==
    \A s \in Addrs, msg \in env.frames, dbok \in BOOLEAN, wok \in BOOLEAN :
        (msg[1] \in {"Text", "File", "Image", "Passwd", "Quit"} /\ logged_user[s] = <<>>
              /\ ReadFrameWith(s, msg, dbok, wok)) =>
            /\ RepliedWith(s,
                  <<"Permission denied, login first using .login <username> <password>">>,
                  wok)
            /\ logged_user'[s] = <<>>
            /\ users' = users /\ user_messages' = user_messages /\ bus' = bus
            /\ pending'[s] = <<>>

C7_PermissionDenied == [][C7_Step]_vars

\* C7 witness: the first frame of an unauthenticated session was refused;
\* the session still runs, history and bus are empty.
C7_Witness ==
    \E s \in Addrs :
        /\ nframes = 1 /\ state[s] = "run" /\ logged_user[s] = <<>>
        /\ sent[s] = << ReplyFrame(
              <<"Permission denied, login first using .login <username> <password>">>) >>
        /\ user_messages = <<>> /\ bus = <<>>

\* C8: a Login or Signup handled while authenticated is answered
\* "Already logged in!" and changes nothing else: not the logged user, not the
\* users table (no call of the store, no new user), not the history or the bus.
C8_Step ==
    \A s \in Addrs, msg \in env.frames, dbok \in BOOLEAN, wok \in BOOLEAN :
        (msg[1] \in {"Login", "Signup"} /\ logged_user[s] # <<>>
              /\ ReadFrameWith(s, msg, dbok, wok)) =>
            /\ RepliedWith(s, <<"Already logged in!">>, wok)
            /\ logged_user'[s] = logged_user[s]
            /\ users' = users /\ next_uuid' = next_uuid
            /\ user_messages' = user_messages /\ bus' = bus
            /\ pending'[s] = <<>>

C8_AlreadyLoggedIn == [][C8_Step]_vars

\* C8 witness: a logged-in session has been answered "Already logged in!"
\* while the name bob (of the Signup frames) is free.
C8_Witness ==
    \E s \in Addrs :
        /\ ~ \E r \in users : r.name = "bob"
        /\ Len(logged_user[s]) = 1 /\ state[s] = "run"
        /\ sent[s] = << ReplyFrame(<<"Welcome, ", "admin">>),
                        ReplyFrame(<<"Already logged in!">>) >>

\* C9 (as claimed): an authenticated session that handles a Quit frame ends
\* normally: its run loop returns Ok and it takes no further frame or bus
\* value.  ("done" is the position of a task whose run returned Ok.)
C9_QuitEndsSession ==
    [][\A s \in Addrs :
          (logged_user[s] # <<>> /\ ReadFrameWith(s, Quit, TRUE, TRUE)) =>
              state'[s] = "done"]_vars

\* C10 (as claimed): every value on the bus, and so every forward, carries a
\* Text, File or Image.
C10_OnlyChatOnBus ==
    /\ \A k \in 1..Len(bus) : bus[k].message[1] \in ChatVariants
    /\ \A s \in Addrs : \A i \in Forwards(s) : sent[s][i].msg[1] \in ChatVariants

\* ---------------------------------------------------- claims on the store
\* passwords tried at authenticate: those in use and one nobody chose
AllPasswords == Passwords \cup {"PW"}

AuthOk(tbl, username, password) == authenticate(tbl, username, password).ok

AuthFailed(tbl, username, password) ==
    /\ ~ authenticate(tbl, username, password).ok
    /\ authenticate(tbl, username, password).err = "AuthenticationFailed"

\* the completed calls <<c, i>> with this operation, name and result
CallsWith(op, username, res) ==
    {ci \in (DOMAIN calls) \X (1..env.calls) :
        /\ ci[2] <= Len(calls[ci[1]].log)
        /\ calls[ci[1]].log[ci[2]][1] = op
        /\ calls[ci[1]].log[ci[2]][2] = username
        /\ calls[ci[1]].log[ci[2]][4] = res}

\* the result of the call that c completes in this step
ResultOf(c) == calls'[c].log[Len(calls'[c].log)][4]

\* C11, signup: when signup(n, p) returns Ok, authenticate(n, p) succeeds with
\* the user signup returned, and authenticate(n, p') fails with
\* AuthenticationFailed for every other p'.
C11_SignupStep ==
    \A c \in DOMAIN calls, dbok \in BOOLEAN :
        (SignupInsert(c, dbok) /\ ResultOf(c) = "Ok") =>
            /\ AuthOk(users', calls[c].username, calls[c].password)
            /\ authenticate(users', calls[c].username, calls[c].password).user =
                  <<[id |-> next_uuid, name |-> calls[c].username,
                     is_active |-> TRUE, is_admin |-> FALSE]>>
            /\ \A p \in AllPasswords \ {calls[c].password} :
                  AuthFailed(users', calls[c].username, p)

\* C11, change_password: when change_password(user n, p2) returns Ok,
\* authenticate(n, p2) succeeds and authenticate(n, p) fails for every other p.
C11_ChangeStep ==
    \A c \in DOMAIN calls, r \in users, p2 \in Passwords :
        (ChangePassword(c, UserFrom(r), p2, TRUE) /\ ResultOf(c) = "Ok") =>
            /\ AuthOk(users', r.name, p2)
            /\ authenticate(users', r.name, p2).user[1].id = r.id
            /\ \A p \in AllPasswords \ {p2} : AuthFailed(users', r.name, p)

\* C11, other users: a signup or change_password call on n leaves the answer
\* of authenticate(m, p) as it was for every other name m.
C11_OthersStep ==
    /\ \A c \in DOMAIN calls, n \in env.names, p \in Passwords :
          SignupBegin(c, n, p) => users' = users
    /\ \A c \in DOMAIN calls, dbok \in BOOLEAN :
          SignupInsert(c, dbok) =>
              \A m \in AllNames \ {calls[c].username}, p \in AllPasswords :
                  authenticate(users', m, p) = authenticate(users, m, p)
    /\ \A c \in DOMAIN calls, r \in users, p2 \in Passwords, dbok \in BOOLEAN :
          ChangePassword(c, UserFrom(r), p2, dbok) =>
              \A m \in AllNames \ {r.name}, p \in AllPasswords :
                  authenticate(users', m, p) = authenticate(users, m, p)

\* C11, unknown names: authenticate(m, p) fails with AuthenticationFailed for
\* every name m that no signup has registered.
C11_Unregistered ==
    \A m \in AllNames \ {"admin"} :
        CallsWith("signup", m, "Ok") = {} =>
            \A p \in AllPasswords : AuthFailed(users, m, p)

\* C11: the authentication law of the store, over every interleaving of
\* signup and change_password calls of concurrent callers: after a successful
\* signup(n, p) exactly the password p authenticates n, as the user that
\* signup returned; after a successful change_password(n, p2) exactly p2 does;
\* a name never registered fails with AuthenticationFailed; and calls on other
\* users change none of this.
C11_StoreAuthenticationLaw ==
    /\ []C11_Unregistered
    /\ [][C11_SignupStep /\ C11_ChangeStep /\ C11_OthersStep]_vars

\* C11 witness: bob signed up with "pw" and then changed to "admin", admin's
\* password was changed by another call, eve never signed up; now "admin"
\* authenticates bob, "pw" does not, and eve is refused.
C11_Witness ==
    /\ CallsWith("signup", "bob", "Ok") # {}
    /\ \E ci \in CallsWith("passwd", "bob", "Ok") :
          calls[ci[1]].log[ci[2]][3] = "admin"
    /\ CallsWith("passwd", "admin", "Ok") # {}
    /\ CallsWith("signup", "eve", "Ok") = {}
    /\ \E r \in users : r.name = "bob" /\ r.password = get_passwd_digest("admin", r.salt)
    /\ AuthOk(users, "bob", "admin") /\ AuthFailed(users, "bob", "pw")
    /\ AuthFailed(users, "eve", "pw")

\* C12, state: while the row of a user has active = 0, authenticate of that
\* name fails with AuthenticationFailed for every password, the stored one
\* included.
C12_Inactive ==
    \A r \in users :
        r.active = 0 => \A p \in AllPasswords : AuthFailed(users, r.name, p)

\* C12, deactivation: update_user(u.id, is_admin, false) on a user of the
\* table sets active = 0 on that row and leaves its name, digest and salt.
C12_DeactivateStep ==
    \A r \in users, is_admin \in BOOLEAN :
        UpdateUser(r.id, is_admin, FALSE) =>
            /\ [r EXCEPT !.active = 0, !.admin = IF is_admin THEN 1 ELSE 0] \in users'
            /\ \A p \in AllPasswords : AuthFailed(users', r.name, p)

\* C12, until: a deactivated user stays deactivated through every step that
\* is not an update_user(u.id, _, true); that one lets the stored password
\* authenticate again.
C12_UntilStep ==
    \A r \in users :
        r.active = 0 =>
            IF \E is_admin \in BOOLEAN : UpdateUser(r.id, is_admin, TRUE)
            THEN \A p \in AllPasswords :
                    AuthOk(users', r.name, p) <=> r.password = get_passwd_digest(p, r.salt)
            ELSE \E q \in users' : q.id = r.id /\ q.name = r.name /\ q.active = 0

\* C12: after update_user(u.id, is_admin, is_active = false) succeeds, every
\* authenticate(u.name, password) fails with AuthenticationFailed, with the
\* correct password too, until an update_user sets is_active = true again.
C12_Deactivation ==
    /\ []C12_Inactive
    /\ [][C12_DeactivateStep /\ C12_UntilStep]_vars

\* C12 witness: bob, whose stored password is "pw", is deactivated, and
\* authenticate("bob", "pw") fails.
C12_Witness ==
    \E r \in users :
        /\ r.name = "bob" /\ r.active = 0
        /\ r.password = get_passwd_digest("pw", r.salt)
        /\ AuthFailed(users, "bob", "pw")

\* C14, state: the users table holds at most one row per name.
C14_OneRowPerName ==
    \A r1 \in users, r2 \in users : r1.name = r2.name => r1 = r2

\* C14, state: of the signup calls with one name, at most one has returned a
\* User (none for admin, registered at start).
C14_OneWinner ==
    \A n \in AllNames :
        Cardinality(CallsWith("signup", n, "Ok")) <= (IF n = "admin" THEN 0 ELSE 1)

\* C14, step: a signup that returns a User has added exactly its row; one
\* that returns an error has added none.
C14_Step ==
    /\ \A c \in DOMAIN calls, n \in env.names, p \in Passwords :
          SignupBegin(c, n, p) => users' = users
    /\ \A c \in DOMAIN calls, dbok \in BOOLEAN :
          SignupInsert(c, dbok) =>
              IF ResultOf(c) = "Ok"
              THEN /\ Cardinality(users') = Cardinality(users) + 1
                   /\ \E r \in users' :
                         users' = users \cup {r} /\ r.name = calls[c].username
              ELSE users' = users

\* C14: after any interleaving of signup calls of concurrent callers, two
\* with one name and overlapping select and insert included, the table holds
\* at most one row per name, at most one of the same-name signups returned a
\* User, and every other returned an error and added no row.
C14_NameUniqueness ==
    /\ [](C14_OneRowPerName /\ C14_OneWinner)
    /\ [][C14_Step]_vars

\* C14 witness: two signups of bob overlapped: both found the name free, one
\* inserted and returned the user, the insert of the other was refused
\* (no fault of the database happened).
C14_Witness ==
    /\ faults = 0
    /\ CallsWith("signup", "bob", "Ok") # {}
    /\ CallsWith("signup", "bob", "Sql") # {}
    /\ Cardinality({r \in users : r.name = "bob"}) = 1

\* ------------------------------------- claims on sessions and the store
\* s is authenticated as a user whose row is deactivated
Deactivated(s) ==
    /\ logged_user[s] # <<>>
    /\ \E r \in users : r.id = logged_user[s][1].id /\ r.active = 0

\* C13, the deactivation itself: update_user touches no session.
C13_UpdateStep ==
    \A r \in users :
        UpdateUser(r.id, r.admin = 1, FALSE) =>
            /\ logged_user' = logged_user /\ state' = state
            /\ sub' = sub /\ pending' = pending

\* C13, frames: a Text/File/Image frame of a session whose user is
\* deactivated is persisted (one row, the user's id) and goes on to be
\* published, and the session stays authenticated.
C13_ChatStep ==
    \A s \in Addrs, msg \in env.frames, wok \in BOOLEAN :
        (msg[1] \in ChatVariants /\ Deactivated(s) /\ ReadFrameWith(s, msg, TRUE, wok)) =>
            /\ AppendsOneRow(logged_user[s][1].id, ShownAs(msg))
            /\ state'[s] = "publish" /\ pending'[s] = <<msg>>
            /\ logged_user'[s] = logged_user[s]

\* C13, publish and receive: the saved message of such a session is put on
\* the bus, and a value of another session that it takes from its
\* subscription is written to its socket.
C13_BusStep ==
    \A s \in Addrs :
        Deactivated(s) =>
            /\ Publish(s) =>
                  /\ bus' = Append(bus, BroadcastMessage(s, pending[s][1]))
                  /\ state'[s] = "run"
            /\ (RecvBroadcast(s) /\ bus[sub[s]].from_addr # s) =>
                  /\ sent'[s] = Append(sent[s], Written("bus", bus[sub[s]].message, sub[s]))
                  /\ state'[s] = "run"

\* C13, logins: a Login for a deactivated user, by a session not yet
\* authenticated, is refused with "Authentication failure".
C13_LoginStep ==
    \A s \in Addrs, msg \in env.frames, wok \in BOOLEAN :
        (/\ msg[1] = "Login" /\ logged_user[s] = <<>>
         /\ \E r \in users : r.name = msg[2] /\ r.active = 0
         /\ ReadFrameWith(s, msg, TRUE, wok)) =>
            /\ logged_user'[s] = <<>>
            /\ RepliedWith(s, <<"Authentication failure">>, wok)

\* C13: deactivating u while a session is authenticated as u leaves that
\* session authenticated: its later Text/File/Image frames are persisted and
\* published and it still receives broadcasts; only later Logins for u fail.
C13_DeactivationKeepsSession ==
    [][C13_UpdateStep /\ C13_ChatStep /\ C13_BusStep /\ C13_LoginStep]_vars

\* C13 witness: session 1 is authenticated as admin and admin is deactivated.
\* Session 2 was refused the Login (so admin was inactive by then), signed up
\* as bob after that, and has been sent a Text of session 1 whose history row
\* is younger than bob's row (ids are handed out in order); session 1 has
\* been sent a Text of session 2.
C13_Witness ==
    /\ env.sessions >= 2
    /\ state[1] = "run" /\ Deactivated(1) /\ logged_user[1][1].name = "admin"
    /\ Len(sent[2]) >= 3
    /\ sent[2][1] = ReplyFrame(<<"Authentication failure">>)
    /\ sent[2][2] = ReplyFrame(<<"Welcome, ", "bob">>)
    /\ \E k \in 1..Len(bus) : bus[k].from_addr = 1 /\ Copies(2, k) = 1
    /\ \E k \in 1..Len(bus) : bus[k].from_addr = 2 /\ Copies(1, k) = 1
    /\ \E i \in 1..Len(user_messages) :
          /\ user_messages[i].author_id = logged_user[1][1].id
          /\ user_messages[i].id > logged_user[2][1].id

\* C15 (as claimed): when more envelopes have been published than the
\* channel keeps for a session that has not drained its subscription, that
\* session only loses its oldest undelivered envelopes: taking the recv arm,
\* it keeps running with its subscription at the oldest envelope still kept,
\* and no other session is affected.
C15_LossyFanOut ==
    [][\A s \in Addrs :
          (RecvLagged(s) /\ RecvBroadcast(s)) =>
              /\ state'[s] = "run"
              /\ sub'[s] >= Len(bus) - ChannelLen + 1
              /\ \A o \in Addrs \ {s} :
                    state'[o] = state[o] /\ sent'[o] = sent[o] /\ sub'[o] = sub[o]]_vars

\* ------------------------------------------------ claims on the connection
\* what read_next_message is to return for an item the client wrote
Expected(item) == IF item = ZeroFrame THEN None ELSE Some(item)

\* the bytes of the items of client_wrote from position i on
RECURSIVE FramesFrom(_)
FramesFrom(i) ==
    IF i > Len(client_wrote) THEN <<>>
    ELSE frame_of(client_wrote[i]) \o FramesFrom(i + 1)

\* read_next_message is between two calls and has consumed exactly the frames
\* it has returned
AtBoundary == reader.pc = "idle" /\ wire = FramesFrom(Len(got) + 1)

\* C17 (as claimed): when the read of the length prefix meets end of stream
\* (the client has closed, no byte is left), the session ends (run returns,
\* which drops broadcast_sub) and the end is logged as a clean end or a
\* disconnect, not as an error.
C17_EndOfStream ==
    [][ReadPrefix(0) => reader'.pc = "ended" /\ reader'.log # "error"]_vars

\* C18 (as claimed): whatever the transport's chunks, the results of
\* read_next_message are Some(m1), Some(m2), ... for the messages sent, in
\* order (and after the last, once the client has closed, the end of stream),
\* and between two calls exactly the unread frames are left on the wire.
C18_FramingBoundary ==
    (\A i \in 1..Len(client_wrote) : client_wrote[i] # ZeroFrame) =>
        /\ \A i \in 1..Len(got) :
              IF i <= Len(client_wrote)
              THEN got[i] = Some(client_wrote[i])
              ELSE closed /\ i = Len(client_wrote) + 1 /\ got[i][1] = "Err"
        /\ reader.pc = "idle" => wire = FramesFrom(Len(got) + 1)

\* C19 (as claimed): with a zero-length frame next on the wire,
\* read_next_message returns None and consumes exactly its 4 bytes, so that
\* the frames after it are read as if it had not been there.
C19_ZeroLengthFrame ==
    [][\A k \in 0..4 :
          (/\ AtBoundary
           /\ Len(got) < Len(client_wrote)
           /\ client_wrote[Len(got) + 1] = ZeroFrame
           /\ ReadPrefix(k)) =>
              /\ got' = Append(got, None)
              /\ wire' = Drop(4)
              /\ reader' = reader]_vars

\* C20 (as claimed): deserialize(serialize(m)) is m for every message, and a
\* message sent with send_message is what read_next_message returns to the
\* peer.
C20_RoundTrip ==
    /\ \A m \in env.msgs : deserialize(serialize(m)) = Some(m)
    /\ (Len(client_wrote) >= 1 /\ Len(got) >= 1 /\ client_wrote[1] # ZeroFrame) =>
          got[1] = Some(client_wrote[1])

\* C21 (as claimed): the 32-bit variant index at the start of every payload
\* written to the wire is Text=0, File=1, Image=2, Login=3, Signup=4,
\* Passwd=5, Quit=6.
C21_WireDiscriminator ==
    \A i \in 1..Len(client_wrote) :
        client_wrote[i] # ZeroFrame =>
            from_le_bytes(SubSeq(serialize(client_wrote[i]), 1, 4)) =
                (CASE client_wrote[i][1] = "Text" -> 0
                   [] client_wrote[i][1] = "File" -> 1
                   [] client_wrote[i][1] = "Image" -> 2
                   [] client_wrote[i][1] = "Login" -> 3
                   [] client_wrote[i][1] = "Signup" -> 4
                   [] client_wrote[i][1] = "Passwd" -> 5
                   [] client_wrote[i][1] = "Quit" -> 6)

\* ------------------------------------------------ one socket, several sends
\* The write side of one client's socket.  In ex11 the handler threads of the
\* other clients forward to it, each under the Mutex of its writer; in ex17
\* the session's own task writes replies and forwards one after the other.
\* send_message writes the prefix and the body with two write calls.  The
\* blocking write of ex11 returns when the whole buffer is queued; the write
\* of ex17's tokio stream may take fewer bytes than given.  A write that
\* fails means the connection is gone; nothing after it reaches the client.
SendCalls == 3

SendMessages == {Quit, Passwd(<<98>>)}

Ex11 == [server |-> "ex11", senders |-> 2, sends |-> SendCalls,
         msgs |-> SendMessages, sessions |-> 0]

Ex17 == [server |-> "ex17", senders |-> 1, sends |-> SendCalls,
         msgs |-> SendMessages, sessions |-> 0]

IdleTask == [pc |-> "idle"]

\* a writer without its Mutex
lock_Absent(g) == TRUE

\* Mutex::lock on the writer returns when no thread holds the guard
lock(g) == g = 0

\* the byte counts one write of len bytes may return
WriteCounts(len) == IF env.server = "ex17" THEN 1..len ELSE {len}

Chunk(n, bytes) == [by |-> n, bytes |-> bytes]

\* send_message is called: the guard is taken, the message serialized
SendBegin(t, m) ==
    /\ task[t].pc = "idle"
    /\ Len(started) < env.sends
    /\ lock(guard)
    /\ guard' = t
    /\ started' = Append(started, [t |-> t, m |-> m])
    /\ task' = [task EXCEPT ![t] = [pc |-> "prefix", n |-> Len(started) + 1,
                                    written |-> 0]]
    /\ UNCHANGED <<out, not_snd>>

\* tcp_stream.write(&size_byte_slice)
WritePrefix(t, k) ==
    /\ task[t].pc = "prefix"
    /\ k \in WriteCounts(4)
    /\ out' = Append(out, Chunk(task[t].n,
                 SubSeq(le_bytes(Len(serialize(started[task[t].n].m)), 4), 1, k)))
    /\ task' = [task EXCEPT ![t].pc = "body", ![t].written = k]
    /\ UNCHANGED <<started, guard, not_snd>>

\* tcp_stream.write(&vec)
WriteBody(t, k) ==
    /\ task[t].pc = "body"
    /\ k \in WriteCounts(Len(serialize(started[task[t].n].m)))
    /\ out' = Append(out, Chunk(task[t].n,
                 SubSeq(serialize(started[task[t].n].m), 1, k)))
    /\ task' = [task EXCEPT ![t].pc = "flush", ![t].written = @ + k]
    /\ UNCHANGED <<started, guard, not_snd>>

\* flush, the byte count check of ex17, return; the guard is dropped.  An Err
\* of send_message ends run in ex17.
SendEnd(t) ==
    /\ task[t].pc = "flush"
    /\ guard' = 0
    /\ task' = [task EXCEPT ![t] =
                  IF /\ env.server = "ex17"
                     /\ task[t].written # 4 + Len(serialize(started[task[t].n].m))
                  THEN [pc |-> "ended"]
                  ELSE IdleTask]
    /\ UNCHANGED <<out, started, not_snd>>

SendInit ==
    \E e \in {Ex11, Ex17} : StartAll(e, <<>>, [t \in 1..e.senders |-> IdleTask])

SendNext ==
    \E t \in DOMAIN task :
        \/ \E m \in env.msgs : SendBegin(t, m)
        \/ \E k \in 1..4 : WritePrefix(t, k)
        \/ \E k \in 1..16 : WriteBody(t, k)
        \/ SendEnd(t)

SendSpec == SendInit /\ [][SendNext]_vars

\* ------------------------------------------------ claims on sends
\* the bytes send number n has put on the socket, from chunk i on
RECURSIVE BytesOf(_, _)
BytesOf(n, i) ==
    IF i > Len(out) THEN <<>>
    ELSE (IF out[i].by = n THEN out[i].bytes ELSE <<>>) \o BytesOf(n, i + 1)

Ok(v) == <<"Ok", v>>

\* \s and \S+ of the regular expressions
IsSpace(c) == c \in {" ", "\t", "\n"}
NonSpace(w) == w # <<>> /\ \A i \in 1..Len(w) : ~IsSpace(w[i])

\* the parts of w between its " " characters
RECURSIVE Fields(_)
Fields(w) ==
    IF \A i \in 1..Len(w) : w[i] # " " THEN <<w>>
    ELSE LET i == CHOOSE i \in 1..Len(w) :
                      w[i] = " " /\ \A j \in 1..(i - 1) : w[j] # " "
         IN <<SubSeq(w, 1, i - 1)>> \o Fields(SubSeq(w, i + 1, Len(w)))

\* str::trim
RECURSIVE trim(_)
trim(w) ==
    IF w = <<>> THEN w
    ELSE IF IsSpace(w[1]) THEN trim(Tail(w))
    ELSE IF IsSpace(w[Len(w)]) THEN trim(SubSeq(w, 1, Len(w) - 1))
    ELSE w

\* REGEX_COMPLEX.captures, ^\.(\S+) (\S+ )?(\S+)$: none, or the three groups,
\* the second of them optional
REGEX_COMPLEX(str) ==
    IF str = <<>> \/ str[1] # "." THEN <<>>
    ELSE LET f == Fields(Tail(str))
         IN IF Len(f) \in {2, 3} /\ \A i \in 1..Len(f) : NonSpace(f[i])
            THEN <<[g1 |-> f[1],
                    g2 |-> IF Len(f) = 3 THEN <<f[2] \o <<" ">>>> ELSE <<>>,
                    g3 |-> f[Len(f)]]>>
            ELSE <<>>

\* REGEX_SIMPLE.captures, ^\.(\S+)$
REGEX_SIMPLE(str) ==
    IF str # <<>> /\ str[1] = "." /\ NonSpace(Tail(str))
    THEN <<[g1 |-> Tail(str)]>>
    ELSE <<>>

\* the keywords
kw_file == <<"f", "i", "l", "e">>
kw_image == <<"i", "m", "a", "g", "e">>
kw_login == <<"l", "o", "g", "i", "n">>
kw_signup == <<"s", "i", "g", "n", "u", "p">>
kw_passwd == <<"p", "a", "s", "s", "w", "d">>
kw_quit == <<"q", "u", "i", "t">>

\* a file that is never read
buf_from_file_Empty(path_str) == Ok(<<>>)

\* buf_from_file: the whole contents of the file, or the error of open
buf_from_file(path_str) ==
    IF \E f \in env.fs : f.path = path_str
    THEN Ok((CHOOSE f \in env.fs : f.path = path_str).bytes)
    ELSE Err("Cannot open file")

\* the second group taken with the space that ends it
optional_arg_Untrimmed(caps) == caps.g2

\* caps.get(2).map(|m| m.as_str().trim())
optional_arg(caps) == IF caps.g2 = <<>> THEN <<>> ELSE <<trim(caps.g2[1])>>

from_str(str) ==
    IF REGEX_COMPLEX(str) # <<>>
    THEN LET caps == REGEX_COMPLEX(str)[1]
             arg == caps.g3
             optional_arg_option == optional_arg(caps)
         IN CASE caps.g1 = kw_file ->
                     IF buf_from_file(arg)[1] = "Err" THEN buf_from_file(arg)
                     ELSE Ok(File(arg, buf_from_file(arg)[2]))
              [] caps.g1 = kw_image ->
                     IF buf_from_file(arg)[1] = "Err" THEN buf_from_file(arg)
                     ELSE Ok(Image(buf_from_file(arg)[2]))
              [] caps.g1 = kw_login ->
                     IF optional_arg_option = <<>>
                     THEN Err("Login requires two arguments - username and password")
                     ELSE Ok(Login(optional_arg_option[1], arg))
              [] caps.g1 = kw_signup ->
                     IF optional_arg_option = <<>>
                     THEN Err("Use .signup <new_username> <new_password>")
                     ELSE Ok(Signup(optional_arg_option[1], arg))
              [] caps.g1 = kw_passwd ->
                     IF optional_arg_option = <<>>
                     THEN Err("Passwd requires the new password to be typed two times")
                     ELSE IF optional_arg_option[1] = arg
                     THEN Ok(Passwd(arg))
                     ELSE Err("Passwords don't match!")
              [] OTHER -> Ok(Text(arg))
    ELSE IF REGEX_SIMPLE(str) # <<>>
    THEN IF REGEX_SIMPLE(str)[1].g1 = kw_quit
         THEN Ok(Quit)
         ELSE Err("Unknown command")
    ELSE Ok(Text(str))

\* ------------------------------------------------ the client reads lines
\* client_stdin_reader: read_line, from_str(buf.trim()), then the message is
\* handed on or the error printed.
Words == {<<"a">>, <<"b">>, <<"a", "b">>}

\* the first words of the lines typed: the keywords and two others
FirstWords ==
    {kw_file, kw_image, kw_login, kw_signup, kw_passwd, kw_quit,
     <<"x">>, <<"l", "o", "g">>}

Dot(w) == <<".">> \o w
Sp(v, w) == v \o <<" ">> \o w

\* what is typed: commands of one, two and three words, plain text, and
\* lines of other shapes
Lines ==
    {Dot(k) : k \in FirstWords}
        \cup {Sp(Dot(k), x) : k \in FirstWords, x \in Words}
        \cup {Sp(Sp(Dot(k), x), y) : k \in FirstWords, x \in Words, y \in Words}
        \cup Words
        \cup {Sp(x, y) : x \in Words, y \in Words}
        \cup {<<>>, <<".">>, <<"a", ".">>, Sp(kw_quit, <<"a">>)}
        \cup {Sp(Dot(k), <<" ">> \o <<"a">>) : k \in FirstWords}
        \cup {Dot(k) \o <<"\t", "a">> : k \in FirstWords}
        \cup {Sp(Sp(Sp(Dot(k), <<"a">>), <<"b">>), <<"a">>) : k \in FirstWords}

\* the files of the client's machine
Files == {[path |-> <<"a">>, bytes |-> <<1, 2, 3>>],
          [path |-> <<"a", "b">>, bytes |-> <<>>]}

\* reader.read_line(&mut buf), buf.trim()
ReadLine(l) ==
    /\ stdin_reader.pc = "read_line"
    /\ stdin_reader' = [pc |-> "from_str", line |-> trim(l \o <<"\n">>)]
    /\ UNCHANGED <<not_cli, watch, client>>

\* Message::from_str(buf.trim())
FromStr ==
    /\ stdin_reader.pc = "from_str"
    /\ stdin_reader' = [pc |-> "match", line |-> stdin_reader.line,
                        message_result |-> from_str(stdin_reader.line)]
    /\ UNCHANGED <<not_cli, watch, client>>

\* watch::Sender::send: the value of the channel is replaced and the
\* receiver is notified.  (log keeps the first env.kept values sent.)
send(w, message) ==
    [value |-> <<message>>, changed |-> TRUE,
     log |-> IF Len(w.log) < env.kept THEN Append(w.log, message) ELSE w.log]

\* the match on message_result: message_tx.send or eprintln
Match ==
    /\ stdin_reader.pc = "match"
    /\ stdin_reader' = [pc |-> "read_line"]
    /\ watch' = IF stdin_reader.message_result[1] = "Ok"
                THEN send(watch, stdin_reader.message_result[2])
                ELSE watch
    /\ UNCHANGED <<not_cli, client>>

ParseInit ==
    Start([lines |-> Lines, fs |-> Files, sessions |-> 0, kept |-> 0])

ParseNext ==
    \/ \E l \in env.lines : ReadLine(l)
    \/ FromStr
    \/ Match

ParseSpec == ParseInit /\ [][ParseNext]_vars

\* ------------------------------------------------ claims on the parser
\* from_str has returned for this line
Parsed(l) == stdin_reader.pc = "match" /\ stdin_reader.line = l

KnownKeywords == {kw_file, kw_image, kw_quit, kw_login, kw_signup, kw_passwd}

\* C23 (as claimed): a line that starts with '.' and whose keyword is not
\* file, image, quit, login, signup or passwd is a ParseError, with one, two
\* or three words.
C23_UnknownCommand ==
    \A k \in FirstWords \ KnownKeywords : \A x, y \in Words :
        (\/ Parsed(Dot(k))
         \/ Parsed(Sp(Dot(k), x))
         \/ Parsed(Sp(Sp(Dot(k), x), y))) =>
            stdin_reader.message_result[1] = "Err"

\* C24: .login u p is Login(u, p), .signup u p is Signup(u, p), .passwd p p
\* is Passwd(p), .passwd p q with p # q is an error, .login u, .signup u and
\* .passwd p are errors, .quit is Quit, and a line that does not start with
\* '.' is Text(line).
C24_CredentialCommands ==
    /\ \A u, p \in Words :
          /\ Parsed(Sp(Sp(Dot(kw_login), u), p)) =>
                stdin_reader.message_result = Ok(Login(u, p))
          /\ Parsed(Sp(Sp(Dot(kw_signup), u), p)) =>
                stdin_reader.message_result = Ok(Signup(u, p))
          /\ Parsed(Sp(Sp(Dot(kw_passwd), u), p)) =>
                IF u = p
                THEN stdin_reader.message_result = Ok(Passwd(p))
                ELSE stdin_reader.message_result[1] = "Err"
          /\ (\/ Parsed(Sp(Dot(kw_login), u))
              \/ Parsed(Sp(Dot(kw_signup), u))
              \/ Parsed(Sp(Dot(kw_passwd), u))) =>
                stdin_reader.message_result[1] = "Err"
    /\ Parsed(Dot(kw_quit)) => stdin_reader.message_result = Ok(Quit)
    /\ \A l \in Lines :
          (Parsed(l) /\ (l = <<>> \/ l[1] # ".")) =>
              stdin_reader.message_result = Ok(Text(l))

\* .passwd a a has been parsed to Passwd(a)
C24_Witness ==
    /\ Parsed(Sp(Sp(Dot(kw_passwd), <<"a">>), <<"a">>))
    /\ stdin_reader.message_result = Ok(Passwd(<<"a">>))

\* C25: .file PATH is File(PATH, the whole contents of the file), .image PATH
\* is Image(the whole contents); when the file cannot be opened the result
\* is an error and no message.
C25_FileAndImage ==
    \A x \in Words :
        /\ Parsed(Sp(Dot(kw_file), x)) =>
              IF \E f \in Files : f.path = x
              THEN \E f \in Files :
                      /\ f.path = x
                      /\ stdin_reader.message_result = Ok(File(x, f.bytes))
              ELSE stdin_reader.message_result[1] = "Err"
        /\ Parsed(Sp(Dot(kw_image), x)) =>
              IF \E f \in Files : f.path = x
              THEN \E f \in Files :
                      /\ f.path = x
                      /\ stdin_reader.message_result = Ok(Image(f.bytes))
              ELSE stdin_reader.message_result[1] = "Err"

\* .file a has been parsed to File(a, 1 2 3)
C25_Witness ==
    /\ Parsed(Sp(Dot(kw_file), <<"a">>))
    /\ stdin_reader.message_result = Ok(File(<<"a">>, <<1, 2, 3>>))

\* ------------------------------------------------ callers of the history
\* save_user_message called with every variant, beside signups and password
\* changes.
HistoryCalls == 3

HistoryMessages ==
    {Text(<<"hi">>), File("x.bin", "b5"), Image("b5"), Login("bob", "pw"),
     Signup("bob", "pw"), Passwd("pw"), Quit}

\* save_user_message(user, message): the transaction begins, a message id is
\* drawn, the row (if the variant has a display string) is inserted and
\* committed
SaveUserMessage(c, user, message, dbok) ==
    /\ calls[c].pc = "idle"
    /\ Len(calls[c].log) < env.calls
    /\ next_uuid' = next_uuid + 1
    /\ user_messages' = IF dbok
                        THEN save_user_message(user_messages, next_uuid, user, message)
                        ELSE user_messages
    /\ calls' = Returned(c, "save", user.name, message, IF dbok THEN "Ok" ELSE "Sql")
    /\ faults' = IF dbok THEN faults ELSE faults + 1
    /\ UNCHANGED <<tcp, elsewhere, env, users, bus, accepted, state, logged_user,
                   sub, pending, sent, nframes>>

HistoryInit ==
    StartWith([frames |-> {}, sessions |-> 0, reads |-> 0, faults |-> MaxFaults,
               calls |-> HistoryCalls, names |-> {"bob"}, msgs |-> HistoryMessages],
              [c \in {1} |-> IdleCaller])

HistoryNext ==
    \/ StoreNext
    \/ \E c \in DOMAIN calls, r \in users, m \in env.msgs, dbok \in StoreOutcomes :
          SaveUserMessage(c, UserFrom(r), m, dbok)

HistorySpec == HistoryInit /\ [][HistoryNext]_vars

\* ------------------------------------------------ claims on the history
\* C26: save_message(user, msg) appends exactly one row, with a fresh id, the
\* user's id and the display string "[Shared file NAME]" for File(NAME, _),
\* "[Shared an image]" for Image(_) and t for Text(t); for Login, Signup,
\* Passwd and Quit it returns ok and leaves the history as it is.  It never
\* changes an existing row or the users table.
C26_HistoryRendering ==
    [][\A c \in DOMAIN calls, r \in users, m \in HistoryMessages :
          /\ SaveUserMessage(c, UserFrom(r), m, TRUE) =>
                /\ calls'[c].log[Len(calls'[c].log)] = <<"save", r.name, m, "Ok">>
                /\ IF m[1] \in {"Text", "File", "Image"}
                   THEN /\ AppendsOneRow(r.id, ShownAs(m))
                        /\ \A i \in 1..Len(user_messages) :
                              user_messages[i].id # user_messages'[Len(user_messages')].id
                        /\ \A u \in users :
                              u.id # user_messages'[Len(user_messages')].id
                   ELSE user_messages' = user_messages
                /\ users' = users
          /\ SaveUserMessage(c, UserFrom(r), m, FALSE) =>
                user_messages' = user_messages /\ users' = users]_vars

\* a File and a Quit have been saved without error: one row
C26_Witness ==
    /\ Len(user_messages) = 1
    /\ user_messages[1].message = <<"[Shared file ", "x.bin", "]">>
    /\ \E c \in DOMAIN calls : \E i, j \in 1..Len(calls[c].log) :
          /\ i < j
          /\ calls[c].log[i] = <<"save", "admin", File("x.bin", "b5"), "Ok">>
          /\ calls[c].log[j] = <<"save", "admin", Quit, "Ok">>

\* ------------------------------------------------ claims on errors
\* C27 (as claimed): when save_user_message or change_password fails with a
\* storage error while the frame of an authenticated client is handled, the
\* session sends Text("Server error") to that client and then ends; once
\* ended it sends nothing more.
C27_HotPathStorageFailure ==
    [][\A s \in Addrs, msg \in env.frames :
          /\ (/\ logged_user[s] # <<>>
              /\ msg[1] \in {"Text", "File", "Image", "Passwd"}
              /\ ReadFrameWith(s, msg, FALSE, TRUE)) =>
                /\ sent'[s] = Append(sent[s], ReplyFrame(<<"Server error">>))
                /\ Ended(s)'
          /\ Ended(s) => sent'[s] = sent[s]]_vars

MaxStarts == 2
BootCalls == 2

\* INIT_SQL, in order
INIT_SQL ==
    << [create |-> "table", name |-> "users"],
       [create |-> "index", name |-> "uq_users_name", on |-> "users"],
       [create |-> "table", name |-> "user_messages"],
       [create |-> "index", name |-> "idx_user_messages_author_id",
        on |-> "user_messages"],
       [create |-> "index", name |-> "idx_user_messages_sent_at",
        on |-> "user_messages"] >>

\* the for loop over INIT_SQL from statement i on: create table fails when the
\* table is there, create index when its table is not; the first failure is
\* returned
RECURSIVE execute_init_sql(_, _)
execute_init_sql(tbls, i) ==
    IF i > Len(INIT_SQL) THEN [ok |-> TRUE, tbls |-> tbls]
    ELSE IF INIT_SQL[i].create = "table"
    THEN IF INIT_SQL[i].name \in tbls
         THEN [ok |-> FALSE, tbls |-> tbls]
         ELSE execute_init_sql(tbls \cup {INIT_SQL[i].name}, i + 1)
    ELSE IF INIT_SQL[i].on \in tbls
         THEN execute_init_sql(tbls, i + 1)
         ELSE [ok |-> FALSE, tbls |-> tbls]

\* ensure_schema_exists.  An error inside the transaction drops it: nothing
\* of it is kept.
EnsureSchemaExists ==
    LET result == Cardinality(tables \cap {"user_messages", "users"})
        init == execute_init_sql(tables, 1)
        admin_user == signup(users, next_uuid, "admin", "admin")
    IN /\ startup.pc = "new"
       /\ IF result = 2
          THEN /\ startup' = [startup EXCEPT !.pc = "Ok"]
               /\ UNCHANGED <<tables, users, next_uuid>>
          ELSE IF ~init.ok
          THEN /\ startup' = [startup EXCEPT !.pc = "Sql"]
               /\ UNCHANGED <<tables, users, next_uuid>>
          ELSE /\ tables' = init.tbls
               /\ next_uuid' = admin_user.uuid
               /\ IF admin_user.ok
                  THEN /\ users' = update_user(admin_user.tbl, admin_user.user[1].id,
                                               TRUE, TRUE).tbl
                       /\ startup' = [startup EXCEPT !.pc = "Ok"]
                  ELSE /\ users' = users
                       /\ startup' = [startup EXCEPT !.pc = admin_user.err]
       /\ UNCHANGED <<env, calls, tcp, snd, cli, beyond, user_messages, bus, accepted,
                      state, logged_user, sub, pending, sent, nframes, faults>>

\* the server process ends and is started again
Restart ==
    /\ startup.pc # "new"
    /\ startup.starts < MaxStarts
    /\ startup' = [pc |-> "new", starts |-> startup.starts + 1]
    /\ calls' = [c \in DOMAIN calls |-> IdleCaller]
    /\ UNCHANGED <<env, chat, tcp, snd, cli, beyond, tables>>

\* a database file with any of the tables, without rows
BootInit ==
    \E tbls \in SUBSET TableNames :
        /\ StartStore(tbls, {}, 1, [pc |-> "new", starts |-> 1])
        /\ StartRest([frames |-> {}, sessions |-> 0, reads |-> 0, faults |-> 0,
                      calls |-> BootCalls, names |-> {"bob"}],
                     [c \in {1} |-> IdleCaller], <<>>)

BootNext ==
    \/ EnsureSchemaExists
    \/ Restart
    \/ startup.pc = "Ok" /\ StoreNext

BootSpec == BootInit /\ [][BootNext]_vars

\* ------------------------------------------------ claims on the start
\* C29 (as claimed): if either table is absent (both, or one of them),
\* bootstrap succeeds and leaves both tables and exactly one new user, named
\* admin, with password admin, active and admin; if both tables are present
\* it changes nothing.
C29_Bootstrap ==
    [][EnsureSchemaExists =>
          IF tables = TableNames
          THEN /\ startup'.pc = "Ok"
               /\ UNCHANGED <<tables, users, user_messages>>
          ELSE /\ startup'.pc = "Ok"
               /\ tables' = TableNames
               /\ \E row \in users' :
                     /\ row \notin users
                     /\ users' = users \cup {row}
                     /\ row.name = "admin" /\ row.active = 1 /\ row.admin = 1
                     /\ authenticate(users', "admin", "admin").ok]_vars

\* ------------------------------------------------ logins that fail
\* Two clients try names and passwords, for a user that is registered, one
\* that signs up meanwhile and one that never does, while the administrator
\* deactivates users.
AuthSessions == 2
AuthFrames == 4

AuthNames == {"admin", "bob", "eve"}

AuthChatFrames ==
    {Login(u, p) : u \in AuthNames, p \in Passwords}
        \cup {Signup("bob", "pw"), Text(<<"hi">>)}

AuthInit ==
    Start([frames |-> AuthChatFrames, sessions |-> AuthSessions,
           reads |-> AuthFrames, faults |-> 0])

AuthSpec == AuthInit /\ [][AdminNext]_vars

\* why authenticate refuses this name and password: the name is not
\* registered, the user is inactive, or the password is wrong
Unregistered(username) == \A r \in users : r.name # username
Inactive(username) == \E r \in users : r.name = username /\ r.active # 1
WrongPassword(username, password) ==
    \E r \in users :
        /\ r.name = username /\ r.active = 1
        /\ r.password # get_passwd_digest(password, r.salt)

\* C30: every authenticate that fails for a reason other than storage, the
\* name not registered, the password wrong or the user inactive, returns the
\* one value AuthenticationFailed, and the session's reply is the one frame
\* Text("Authentication failure"): neither tells whether the name exists.
C30_Step ==
    \A s \in Addrs, msg \in env.frames, wok \in BOOLEAN :
        (/\ msg[1] = "Login" /\ logged_user[s] = <<>>
         /\ \/ Unregistered(msg[2])
            \/ Inactive(msg[2])
            \/ WrongPassword(msg[2], msg[3])
         /\ ReadFrameWith(s, msg, TRUE, wok)) =>
            /\ authenticate(users, msg[2], msg[3]) =
                  [ok |-> FALSE, err |-> "AuthenticationFailed", user |-> <<>>]
            /\ RepliedWith(s, <<"Authentication failure">>, wok)
            /\ logged_user'[s] = <<>>

C30_IndistinguishableFailures == [][C30_Step]_vars

\* bob has signed up and been deactivated, and another session has been
\* refused three times
C30_Witness ==
    /\ Inactive("bob")
    /\ \E s \in Addrs :
          /\ logged_user[s] = <<>>
          /\ sent[s] = << ReplyFrame(<<"Authentication failure">>),
                          ReplyFrame(<<"Authentication failure">>),
                          ReplyFrame(<<"Authentication failure">>) >>

\* ------------------------------------------------ two texts in a row
\* Two clients log in as admin and send the texts a and b in any order and
\* number; a write to a socket may fail once.
FifoSessions == 2
FifoFrames == 5

FifoChatFrames == {Login("admin", "admin"), Text(<<"a">>), Text(<<"b">>)}

FifoInit ==
    Start([frames |-> FifoChatFrames, sessions |-> FifoSessions,
           reads |-> FifoFrames, faults |-> 1])

FifoSpec == FifoInit /\ [][Next]_vars

\* ------------------------------------------------ claims on order
\* the forwards on the socket of s, in the order written, as bus positions
RECURSIVE ForwardedSeqs(_, _)
ForwardedSeqs(s, i) ==
    IF i > Len(sent[s]) THEN <<>>
    ELSE (IF sent[s][i].src = "bus" THEN <<sent[s][i].seq>> ELSE <<>>)
            \o ForwardedSeqs(s, i + 1)

\* C31: per-subscriber FIFO.  The envelopes written to a session's socket
\* are values of the bus, each written as it was published, and they are
\* written in the order in which they were published (bus position): of two
\* envelopes a session published one after the other, a subscriber that is
\* sent both is sent the earlier one first.
C31_PerSubscriberFifo ==
    \A s \in Addrs :
        LET f == ForwardedSeqs(s, 1)
        IN /\ \A i \in 1..Len(f) :
                 f[i] \in 1..Len(bus) /\ bus[f[i]].from_addr # s
           /\ \A i \in Forwards(s) : sent[s][i].msg = bus[sent[s][i].seq].message
           /\ \A i, j \in 1..Len(f) : i < j => f[i] < f[j]

\* a session has been sent two different texts of one publisher
C31_Witness ==
    \E s \in Addrs :
        LET f == ForwardedSeqs(s, 1)
        IN /\ Len(f) >= 2
           /\ bus[f[1]].from_addr = bus[f[2]].from_addr
           /\ bus[f[1]].message # bus[f[2]].message
           /\ logged_user[s] # <<>>

\* ------------------------------------------------ the listener and its tasks
\* Server::listen spawns one task per connection and goes back to accept.
\* The scenario of the slow subscriber, with what can make a session fail:
\* a read that returns Err, a store call that fails, a socket write that
\* fails, and 33 values waiting in a subscription.  Both clients log in
\* before the first sends its texts; reads, store calls and writes of
\* replies fail among the first BoundaryFaultyReads reads only, the write
\* of a forward fails at most once.
BoundaryFrames == 35
BoundaryFaultyReads == 3

\* mutant of spawned: listen runs the session itself and returns its error
spawned_Awaited(l, outcome) ==
    [pc |-> IF outcome \in {"err", "panic"} THEN "ended" ELSE l.pc,
     done |-> l.done]

\* listen, lines 63-75: the JoinHandle of tokio::spawn is dropped, and in the
\* task every result of run is matched and logged; a panic of the task is
\* caught by the runtime.  Nothing of the task's end reaches listen.
spawned(l, outcome) == l

\* listen, lines 64-74: run has returned or panicked, the task finishes
TaskEnd(s) ==
    /\ state[s] \in {"err", "panic"}
    /\ s \notin listener.done
    /\ listener' = [spawned(listener, state[s]) EXCEPT !.done = @ \cup {s}]
    /\ UNCHANGED not_lsn

BoundaryInit ==
    Start([frames |-> ChatFrames, sessions |-> LagSessions, reads |-> BoundaryFrames,
           faults |-> 1])

\* what may happen to a store call or a write of a reply in this scenario
BoundaryOutcomes == IF nframes < BoundaryFaultyReads THEN {TRUE, FALSE} ELSE {TRUE}

BoundaryNext ==
    \/ listener.pc = "accept" /\ Accept
    \/ \E s \in Addrs : RecvBroadcast(s)
    \/ \E s \in Addrs, dbok \in BoundaryOutcomes, wok \in BoundaryOutcomes :
          /\ logged_user[s] = <<>>
          /\ dbok \/ wok
          /\ ReadFrameWith(s, Login("admin", "admin"), dbok, wok)
    \/ \E dbok \in BoundaryOutcomes :
          /\ \A s \in Addrs : logged_user[s] # <<>>
          /\ ReadFrameWith(1, Text(<<"hi">>), dbok, TRUE)
    \/ \E s \in Addrs : nframes < BoundaryFaultyReads /\ ReadErr(s)
    \/ \E s \in Addrs : Publish(s)
    \/ \E s \in Addrs : TaskEnd(s)

BoundarySpec == BoundaryInit /\ [][BoundaryNext]_vars

\* ------------------------------------------------ claims on the boundary
\* the step ends the run loop of s: run returns Err or panics
Fails(s) == state[s] \in {"run", "publish"} /\ state'[s] \in {"err", "panic"}

\* C32: session boundary.  In the step in which a session fails (its read
\* returns an error, its store call fails, its socket write fails, its
\* recv on the subscription fails) and in the step in which its task
\* finishes, listen stays in its accept loop, and every other session keeps
\* its logged_user and its place in its run loop.
C32_SessionBoundary ==
    [][\A s \in Addrs :
          Fails(s) \/ (s \in listener'.done /\ s \notin listener.done)
          => /\ listener'.pc = "accept"
             /\ \A t \in Addrs \ {s} :
                   logged_user'[t] = logged_user[t] /\ state'[t] = state[t]]_vars

\* a session has panicked on its subscription and its task is finished,
\* the other one is logged in and running
C32_Witness ==
    \E s \in Addrs, t \in Addrs :
        /\ state[s] = "panic" /\ s \in listener.done
        /\ state[t] = "run" /\ logged_user[t] # <<>>
        /\ listener.pc = "accept"

\* ------------------------------------------------ the two arms of select!
\* One session in its loop (server.rs:92-141) while its client keeps writing
\* whole frames and other sessions keep publishing.  mux.socket counts the
\* whole frames waiting on the socket, mux.waiting the values waiting in
\* broadcast_sub; the channel keeps ChannelLen values, so one value more
\* than that makes the next recv return Lagged.
SelectFrames == 3

\* mutant of select: select! { biased; ... } polls the recv arm first
select_Biased(ready) == IF "recv" \in ready THEN {"recv"} ELSE ready

\* select!: the arms are polled in random order and the first that is ready
\* runs, so any ready arm may be the one
select(ready) == ready

\* the arms whose future is ready when polled
ReadyArms ==
    (IF mux.waiting > 0 THEN {"recv"} ELSE {}) \cup
    (IF mux.socket > 0 THEN {"read"} ELSE {})

\* the client writes a whole frame
FrameArrives ==
    /\ mux.socket < SelectFrames
    /\ mux' = [mux EXCEPT !.socket = @ + 1]
    /\ UNCHANGED not_mux

\* another session publishes
EnvelopeArrives ==
    /\ mux.waiting <= ChannelLen
    /\ mux' = [mux EXCEPT !.waiting = @ + 1]
    /\ UNCHANGED not_mux

\* lines 94-99: recv returns the oldest waiting value, or Err(Lagged), which
\* the unwrap turns into a panic of the task
RecvArm ==
    /\ mux.pc = "select"
    /\ "recv" \in select(ReadyArms)
    /\ mux' = IF mux.waiting > ChannelLen
              THEN [mux EXCEPT !.pc = "panic"]
              ELSE [mux EXCEPT !.waiting = @ - 1, !.recv = 1 - @]
    /\ UNCHANGED not_mux

\* lines 100-140: read_next_message returns the next frame and the arm
\* handles it
ReadArm ==
    /\ mux.pc = "select"
    /\ "read" \in select(ReadyArms)
    /\ mux' = [mux EXCEPT !.socket = @ - 1, !.read = 1 - @]
    /\ UNCHANGED not_mux

SelectInit ==
    Start([frames |-> {}, sessions |-> 0, reads |-> 0, faults |-> 0])

SelectNext ==
    \/ FrameArrives
    \/ EnvelopeArrives
    \/ RecvArm
    \/ ReadArm

\* the task is scheduled while an arm is ready, and select! gives each ready
\* arm its turn
SelectFairness == WF_vars(RecvArm) /\ WF_vars(ReadArm)

SelectSpec == SelectInit /\ [][SelectNext]_vars /\ SelectFairness

\* ------------------------------------------------ claims on select!
\* C33: no starvation between the two event sources.  Under a fair
\* scheduler a whole frame waiting on the socket is eventually handled by
\* the read arm, however many envelopes arrive, and a value waiting in the
\* subscription is eventually taken by the recv arm, however many frames
\* arrive.
C33_NoStarvation ==
    \A b \in {0, 1} :
        /\ (mux.socket > 0 /\ mux.read = b) ~> (mux.read # b)
        /\ (mux.waiting > 0 /\ mux.recv = b) ~> (mux.recv # b)

\* ------------------------------------------------ a read that is cancelled
\* One session reads its socket while envelopes arrive.  The client's
\* send_message writes the prefix and the body in two calls; each written
\* chunk arrives whole, and every read returns all the bytes it can, so that
\* without the recv arm every frame is read as it was written.
CancelSends == 2
CancelEnvelopes == 1

\* send_message of the client, lines 62-65: two writes
ClientWrites(m) ==
    /\ Len(client_wrote) < env.sends
    /\ transit' = transit \o <<le_bytes(Len(serialize(m)), 4), serialize(m)>>
    /\ client_wrote' = Append(client_wrote, m)
    /\ UNCHANGED <<env, chat, calls, wire, closed, reader, got, snd, cli, db, lsn, mux,
                   xmit>>

\* the oldest chunk in transit arrives at the server's socket
Arrives ==
    /\ transit # <<>>
    /\ wire' = wire \o Head(transit)
    /\ transit' = Tail(transit)
    /\ UNCHANGED <<env, chat, calls, closed, client_wrote, reader, got, snd, cli, db, lsn,
                   mux, xmit>>

\* the most one read into a buffer of len bytes can return
Most(len) == IF len < Len(wire) THEN len ELSE Len(wire)

\* select!, lines 93-99: read_next_message is pending (no byte to read), a
\* value of the subscription is ready and the recv arm runs.  The future of
\* read_next_message is dropped, and with it size_buf, message_size and the
\* cursor of read_next_n_bytes; the next pass of the loop calls
\* read_next_message anew.
RecvWhileReading ==
    /\ reader.pc \in {"idle", "body"}
    /\ wire = <<>>
    /\ mux.waiting > 0
    /\ mux' = [mux EXCEPT !.waiting = @ - 1, !.recv = 1 - @]
    /\ reader' = [pc |-> "idle"]
    /\ UNCHANGED <<env, chat, calls, wire, closed, client_wrote, got, snd, cli, db, lsn,
                   transit, xmit>>

CancelInit ==
    Start([frames |-> {}, sessions |-> 0, reads |-> 0, faults |-> 0,
           sends |-> CancelSends, msgs |-> TcpMessages])

CancelNext ==
    \/ \E m \in env.msgs : ClientWrites(m)
    \/ Arrives
    \/ ReadPrefix(Most(4))
    \/ reader.pc = "body" /\ ReadBody(Most(reader.n))
    \/ mux.waiting < CancelEnvelopes /\ EnvelopeArrives
    \/ RecvWhileReading

CancelSpec == CancelInit /\ [][CancelNext]_vars

\* ------------------------------------------------ claims on multiplexing
\* C34 (as claimed): no frame is lost or corrupted by multiplexing.  Whatever
\* the recv arm does in between, read_next_message returns the messages the
\* client wrote, each once and in order, and once all that was written has
\* arrived and read_next_message is between two calls, exactly the frames
\* not yet returned are left on the socket.
C34_NoLossByMultiplexing ==
    /\ Len(got) <= Len(client_wrote)
    /\ \A i \in 1..Len(got) : got[i] = Some(client_wrote[i])
    /\ (reader.pc = "idle" /\ transit = <<>>) => wire = FramesFrom(Len(got) + 1)

\* ------------------------------------------------ every frame, and the administrator
\* The general scenario (any frame from any client, one fault) while an
\* administrator deactivates users.
MonoSpec == Init /\ [][AdminNext]_vars

\* ------------------------------------------------ claims on logged_user
\* C35: authentication is monotonic.  A session starts with logged_user =
\* None; logged_user is set only by the session's own Login or Signup frame
\* whose store call succeeds; once set it stays the same user for the rest
\* of the session, whatever frame the session reads, whatever it takes from
\* the bus, and whatever happens to the user's row (password changed, user
\* deactivated).
C35_AuthMonotonic ==
    [][\A s \in Addrs :
          /\ (state[s] = "none" /\ state'[s] # "none") => logged_user'[s] = <<>>
          /\ logged_user[s] # <<>> => logged_user'[s] = logged_user[s]
          /\ (logged_user[s] = <<>> /\ logged_user'[s] # <<>>) =>
                \E msg \in env.frames, wok \in BOOLEAN :
                    /\ msg[1] \in {"Login", "Signup"}
                    /\ ReadFrameWith(s, msg, TRUE, wok)
                    /\ logged_user'[s][1].name = msg[2]]_vars

\* a session is logged in, has since been told "Already logged in!", and
\* its user has been deactivated
C35_Witness ==
    \E s \in Addrs :
        /\ logged_user[s] # <<>>
        /\ \E i \in 1..Len(sent[s]) : sent[s][i] = ReplyFrame(AlreadyLoggedInText)
        /\ \E r \in users : r.id = logged_user[s][1].id /\ r.active = 0

\* ------------------------------------------------ claims on late logins
\* bus[k] was published while s, already subscribed, was unauthenticated,
\* and s has not taken it from its subscription yet
PublishedBeforeLogin(s, k) ==
    /\ k <= Len(bus) /\ sub[s] <= k
    /\ state[s] # "none"
    /\ logged_user[s] = <<>>

\* C36 (as claimed): an envelope published while a session is still
\* unauthenticated is never written to that session's socket, also when the
\* session logs in before it takes the envelope from its subscription.
C36_NoDeliveryFromBeforeLogin ==
    \A s \in 1..MaxSessions, k \in 1..MaxFrames :
        [](PublishedBeforeLogin(s, k) => [](Copies(s, k) = 0))

\* ------------------------------------------------ a frame that is cut short
\* The client's send_message writes the prefix and then fewer bytes of the
\* body than it has (a short write); send_message returns
\* IncorrectTransmitByteCountError, process_messages returns it
\* (client.rs:56) and the client ends, which closes the socket.
TruncSends == 2

ClientWritesShort(m, k) ==
    /\ ~closed
    /\ Len(client_wrote) < env.sends
    /\ k < Len(serialize(m))
    /\ wire' = wire \o le_bytes(Len(serialize(m)), 4) \o SubSeq(serialize(m), 1, k)
    /\ closed' = TRUE
    /\ UNCHANGED <<elsewhere, calls, client_wrote, reader, got, env, chat>>

\* the session's reads, whatever they return
ReadPrefixAny == \E k \in 0..4 : ReadPrefix(k)
ReadBodyAny == \E k \in 1..Len(wire) : ReadBody(k)

TruncInit ==
    Start([frames |-> {}, sessions |-> 0, reads |-> 0, faults |-> 0,
           sends |-> TruncSends, msgs |-> {Text(<<97>>), Quit}])

TruncNext ==
    \/ \E m \in env.msgs : ClientSend(m)
    \/ \E m \in env.msgs, k \in 0..4 : ClientWritesShort(m, k)
    \/ ClientClose
    \/ ReadPrefixAny
    \/ ReadBodyAny

\* the session's task runs: a read that can return does
TruncFairness == WF_vars(ReadPrefixAny) /\ WF_vars(ReadBodyAny)

TruncSpec == TruncInit /\ [][TruncNext]_vars /\ TruncFairness

\* ------------------------------------------------ claims on truncation
\* C37 (as claimed): when the peer has closed the stream and
\* read_next_message, having read a length prefix N > 0, has read fewer than
\* N body bytes and no byte is left to read, read_next_message returns (end
\* of stream or an error) and the session ends.
C37_TruncatedFrameEnds ==
    (closed /\ reader.pc = "body" /\ wire = <<>>) ~> (reader.pc = "ended")

\* ------------------------------------------------ send_message in byte counts
\* send_message (message_tcp_stream.rs:58-75) on payloads of any length.
\* A usize is its 8 bytes, lowest first (a 64-bit build); a u32 is its 4
\* bytes.  The payload itself is left out, only its length is kept.
usize(n) == le_bytes(n, 8)

\* 2^32 + n
Above32(n) == le_bytes(n, 4) \o le_bytes(1, 4)

\* the lengths of the serialized messages: Quit, a short Text, the longest
\* that fits in a u32, and longer ones
VecLens ==
    {usize(4), usize(13), usize(300),
     <<255, 255, 255, 255>> \o le_bytes(0, 4),
     Above32(0), Above32(4), Above32(13)}

\* usize addition (wrapping)
RECURSIVE usize_add(_, _, _)
usize_add(a, b, carry) ==
    IF a = <<>> THEN <<>>
    ELSE <<(a[1] + b[1] + carry) % 256>>
            \o usize_add(Tail(a), Tail(b), (a[1] + b[1] + carry) \div 256)

\* a < b
RECURSIVE usize_less(_, _)
usize_less(a, b) ==
    IF a = <<>> THEN FALSE
    ELSE IF a[Len(a)] # b[Len(b)] THEN a[Len(a)] < b[Len(b)]
    ELSE usize_less(SubSeq(a, 1, Len(a) - 1), SubSeq(b, 1, Len(b) - 1))

\* `as u32`: the low 32 bits
as_u32(n) == SubSeq(n, 1, 4)

\* the counts tcp_stream.write may return for a buffer of len bytes: all of
\* it, or less
WriteReturns(len) ==
    {len} \cup {k \in {usize(1), usize(3), usize(12), Above32(0)} : usize_less(k, len)}

\* lines 59-63
SerializeMessage(len) ==
    /\ xmit.pc = "serialize"
    /\ xmit' = [pc |-> "write_size", vec_len |-> len,
                size_byte_slice |-> as_u32(len),
                expected_bytes_written |-> usize_add(usize(4), len, 0)]
    /\ UNCHANGED not_xmit

\* line 65, the first write
WriteSize(k) ==
    /\ xmit.pc = "write_size"
    /\ k \in WriteReturns(usize(Len(xmit.size_byte_slice)))
    /\ xmit' = [pc |-> "write_vec", vec_len |-> xmit.vec_len,
                size_byte_slice |-> xmit.size_byte_slice,
                expected_bytes_written |-> xmit.expected_bytes_written,
                size_written |-> k]
    /\ UNCHANGED not_xmit

\* line 65, the second write, and lines 66-74
WriteVec(k) ==
    LET bytes_written == usize_add(xmit.size_written, k, 0)
    IN /\ xmit.pc = "write_vec"
       /\ k \in WriteReturns(xmit.vec_len)
       /\ xmit' = [pc |-> "returned", vec_len |-> xmit.vec_len,
                   size_byte_slice |-> xmit.size_byte_slice,
                   size_written |-> xmit.size_written, vec_written |-> k,
                   result |-> IF bytes_written = xmit.expected_bytes_written
                              THEN <<"Ok">>
                              ELSE Err(IncorrectTransmitByteCountError(
                                          xmit.expected_bytes_written, bytes_written))]
       /\ UNCHANGED not_xmit

SizeInit ==
    Start([frames |-> {}, sessions |-> 0, reads |-> 0, faults |-> 0, lens |-> VecLens])

SizeNext ==
    \/ \E len \in env.lens : SerializeMessage(len)
    \/ \E k \in WriteReturns(usize(4)) : WriteSize(k)
    \/ xmit.pc = "write_vec" /\ \E k \in WriteReturns(xmit.vec_len) : WriteVec(k)

SizeSpec == SizeInit /\ [][SizeNext]_vars

\* ------------------------------------------------ claims on the prefix
\* C38 (as claimed): when send_message has returned Ok, the 4 bytes of the
\* prefix it wrote are, as a little-endian number, the number of body bytes
\* it wrote after them, whatever the length of the payload (so a payload of
\* 2^32 bytes or more is not written with its length mod 2^32 and reported
\* as sent); and when a write was short, send_message has returned an error.
C38_PrefixMatchesBody ==
    xmit.pc = "returned" =>
        /\ xmit.result = <<"Ok">> =>
              /\ xmit.size_written = usize(4)
              /\ xmit.size_byte_slice \o le_bytes(0, 4) = xmit.vec_written
        /\ (xmit.size_written # usize(4) \/ xmit.vec_written # xmit.vec_len) =>
              xmit.result[1] = "Err"

\* ------------------------------------------------ the client's two tasks
\* client (main.rs:89-99) spawns client_stdin_reader and runs
\* process_messages; the two share the watch channel.  The user types
\* ClientLines lines; the server sends the client up to ClientInbound
\* messages.
ClientLines == 3
ClientInbound == 1

\* what is typed: two texts, a login, a line that does not parse, and .quit
ClientTyped ==
    {<<"a">>, <<"b">>, Sp(Sp(Dot(kw_login), <<"a">>), <<"b">>), Dot(<<"x">>), Dot(kw_quit)}

\* process_messages, lines 48-60: changed() completes, borrow_and_update
\* marks the value seen, and the value is sent to the server (or, for Quit,
\* process_messages returns)
StdinEvent ==
    /\ client.pc = "select"
    /\ watch.changed
    /\ watch' = [watch EXCEPT !.changed = FALSE]
    /\ client' = IF watch.value = <<>> THEN client
                 ELSE IF watch.value[1] = Quit THEN [client EXCEPT !.pc = "returned"]
                 ELSE [client EXCEPT !.sent = Append(@, watch.value[1])]
    /\ UNCHANGED <<not_cli, stdin_reader>>

\* process_messages, lines 61-69: a message of the server is read and
\* printed or written to a file
ServerEvent ==
    /\ client.pc = "select"
    /\ client.received < env.inbound
    /\ client' = [client EXCEPT !.received = @ + 1]
    /\ UNCHANGED <<not_cli, stdin_reader, watch>>

ClientInit ==
    Start([lines |-> ClientTyped, fs |-> Files, sessions |-> 0,
           kept |-> ClientLines, inbound |-> ClientInbound])

ClientNext ==
    \/ \E l \in env.lines : Len(watch.log) < env.kept /\ ReadLine(l)
    \/ FromStr
    \/ Match
    \/ StdinEvent
    \/ ServerEvent

ClientSpec == ClientInit /\ [][ClientNext]_vars

\* ------------------------------------------------ claims on the client
\* the messages parsed up to the first Quit
RECURSIVE UntilQuit(_)
UntilQuit(log) ==
    IF log = <<>> \/ Head(log) = Quit THEN <<>>
    ELSE <<Head(log)>> \o UntilQuit(Tail(log))

\* C39 (as claimed): client input is not lost.  The messages the client has
\* sent to the server are, in order and each once, the first of the
\* messages the stdin reader has parsed (up to a Quit); and once the loop
\* has seen the last value of the channel, all of them have been sent.
C39_InputNotLost ==
    /\ Len(client.sent) <= Len(UntilQuit(watch.log))
    /\ client.sent = SubSeq(UntilQuit(watch.log), 1, Len(client.sent))
    /\ ~watch.changed => client.sent = UntilQuit(watch.log)

\* ------------------------------------- change_password and its argument
\* change_password takes any User.  A User whose id no row has (the id of
\* no signup), under a name that a row may have:
Stranger == [id |-> 0, name |-> "bob", is_active |-> TRUE, is_admin |-> FALSE]

PasswdNext ==
    \/ StoreNext
    \/ \E c \in DOMAIN calls, p \in Passwords, dbok \in StoreOutcomes :
          ChangePassword(c, Stranger, p, dbok)

PasswdSpec == StoreInit /\ [][PasswdNext]_vars

\* the users change_password is called with
PasswdUsers == {UserFrom(r) : r \in users} \cup {Stranger}

\* C40: change_password on a missing row.  When no row has user.id the call
\* returns NoSuchUser and the users table is as it was; a call that does not
\* return Ok changes no row; and when it returns Ok the row with user.id has
\* a new salt and the digest of the new password under that salt, its other
\* fields are as before, and every other row is unchanged.
C40_ChangePasswordRows ==
    [][\A c \in DOMAIN calls, user \in PasswdUsers, p \in Passwords, dbok \in BOOLEAN :
          ChangePassword(c, user, p, dbok) =>
             /\ (dbok /\ ~ \E r \in users : r.id = user.id) =>
                   ResultOf(c) = "NoSuchUser" /\ users' = users
             /\ ResultOf(c) # "Ok" => users' = users
             /\ (dbok /\ \E r \in users : r.id = user.id) => ResultOf(c) = "Ok"
             /\ ResultOf(c) = "Ok" =>
                   /\ {r \in users' : r.id # user.id} = {r \in users : r.id # user.id}
                   /\ \E old \in users, new \in users' :
                         /\ old.id = user.id /\ new.id = user.id
                         /\ {r \in users' : r.id = user.id} = {new}
                         /\ new.salt # old.salt
                         /\ new.password = get_passwd_digest(p, new.salt)
                         /\ new = [old EXCEPT !.salt = new.salt,
                                              !.password = new.password]]_vars

\* C40 witness: bob has signed up, a change_password for the stranger of
\* that name has returned NoSuchUser, a change_password for bob's own User
\* has returned Ok, and bob's row carries the digest of that call only.
C40_Witness ==
    /\ CallsWith("signup", "bob", "Ok") # {}
    /\ CallsWith("passwd", "bob", "NoSuchUser") # {}
    /\ \E ci \in CallsWith("passwd", "bob", "Ok") :
          \E r \in users :
             /\ r.name = "bob"
             /\ r.password = get_passwd_digest(calls[ci[1]].log[ci[2]][3], r.salt)

====
